---- MODULE Spec2Model ----
(***************************************************************************)
(* Kyros backend: the Phase 2 OTB calculation engine                       *)
(* (app/services/otb_calculation_engine.py) with the tables it reads and   *)
(* writes: OTB plan rows, purchase orders, the adjustment ledger, the      *)
(* position store, and the season with its workflow record.  The model     *)
(* holds the rows of one season; money is counted in whole units.          *)
(***************************************************************************)
EXTENDS Integers, Sequences, FiniteSets, TLC

VARIABLES
    season_status,    \* Season.status
    workflow,         \* SeasonWorkflow: the five boolean gates
    otb_plans,        \* table otb_plan: set of rows
    purchase_orders,  \* table purchase_orders: set of rows
    adjustments,      \* table otb_adjustments: set of rows
    positions,        \* table otb_positions: set of rows
    now,              \* the wall clock read by datetime.now(timezone.utc)
    response,         \* outcome of the last request: operation, HTTP status, subject
    reqs,             \* in-flight approve/reject requests, each on a session of its own
    audit_logs        \* table audit_logs: set of rows, one per distinct
                      \* (entity_type, entity_id, action, user_id)

vars == <<season_status, workflow, otb_plans, purchase_orders, adjustments,
          positions, now, response, reqs, audit_logs>>

----------------------------------------------------------------------------
(* Bounds of the model *)

MaxAdj == 1       \* rows the adjustment ledger may hold
MaxAmount == 2    \* largest amount requested in an adjustment
MaxClock == 2     \* last value of the clock

Categories == {1, 2}
Locations == {1}
Users == {1, 2}
Actors == {1}   \* current_user of the requests that only record who made them
PONumbers == {1}
Months == {1, 2}
Days == {1, 2}
ReqIds == {1, 2}

----------------------------------------------------------------------------
(* Column values *)

NoCategory == 0   \* NULL from_category_id / to_category_id
NoUser == 0       \* NULL approved_by
NoTime == -1      \* NULL approved_at
NoReason == "none"

\* AuditService.log: the row it adds to audit_logs
AuditEntry(entity_type, entity_id, action, user_id) ==
    [entity_type |-> entity_type, entity_id |-> entity_id,
     action |-> action, user_id |-> user_id]

Date(m, d) == [kind |-> "date", m |-> m, d |-> d]
NoDate == [kind |-> "null", m |-> 0, d |-> 0]

\* date.replace(day=1)
FirstOfMonth(dt) == [dt EXCEPT !.d = 1]

\* func.strftime("%Y-%m-01", order_date): the text 'YYYY-MM-01', not a date
strftime_month(dt) == [kind |-> "text", m |-> dt.m, d |-> 1]

SeasonStatus == {"created", "locations_defined", "plan_uploaded", "otb_uploaded",
                 "range_uploaded", "locked"}

AdjustmentStatus == {"pending", "approved", "rejected"}

POStatus == {"draft", "submitted", "confirmed", "shipped", "partial", "complete",
             "cancelled"}

\* active_statuses of _get_consumed_otb_by_category_month
active_statuses == {"draft", "submitted", "confirmed", "shipped", "partial", "complete"}

----------------------------------------------------------------------------
(* Values the requests of the model carry *)

Reasons == {"r"}

\* alert thresholds, in percent
DEFAULT_LOW_OTB_THRESHOLD == 20
DEFAULT_UNDERUTILIZED_THRESHOLD == 50
DEFAULT_IMBALANCE_THRESHOLD == 25

----------------------------------------------------------------------------
(* Sums over rows *)

RECURSIVE SumLimit(_)
SumLimit(S) ==
    IF S = {} THEN 0
    ELSE LET r == CHOOSE x \in S : TRUE IN r.approved_spend_limit + SumLimit(S \ {r})

RECURSIVE SumPOValue(_)
SumPOValue(S) ==
    IF S = {} THEN 0
    ELSE LET r == CHOOSE x \in S : TRUE IN r.po_value + SumPOValue(S \ {r})

RECURSIVE SumAmount(_)
SumAmount(S) ==
    IF S = {} THEN 0
    ELSE LET r == CHOOSE x \in S : TRUE IN r.amount + SumAmount(S \ {r})

RECURSIVE SumAvailable(_)
SumAvailable(S) ==
    IF S = {} THEN 0
    ELSE LET r == CHOOSE x \in S : TRUE IN r.available_otb + SumAvailable(S \ {r})

RECURSIVE SumPlanned(_)
SumPlanned(S) ==
    IF S = {} THEN 0
    ELSE LET r == CHOOSE x \in S : TRUE IN r.planned_otb + SumPlanned(S \ {r})

RECURSIVE SumConsumed(_)
SumConsumed(S) ==
    IF S = {} THEN 0
    ELSE LET r == CHOOSE x \in S : TRUE IN r.consumed_otb + SumConsumed(S \ {r})

Max(a, b) == IF a >= b THEN a ELSE b

\* dict.get(key, default)
DictGet(dict, key, default) == IF key \in DOMAIN dict THEN dict[key] ELSE default

----------------------------------------------------------------------------
(* OTB plan formula *)

calculate_otb(planned_sales, planned_closing_stock, opening_stock, on_order) ==
    planned_sales + planned_closing_stock - opening_stock - on_order

----------------------------------------------------------------------------
(* Aggregators of the engine.  category_id = NoCategory is "no filter". *)

_get_planned_otb_by_category_month(plans, category_id) ==
    LET rows == {r \in plans : category_id = NoCategory \/ r.category_id = category_id}
        keys == {<<r.category_id, r.month>> : r \in rows}
    IN  [k \in keys |->
            SumLimit({r \in rows : r.category_id = k[1] /\ r.month = k[2]})]

_get_consumed_otb_by_category_month(pos, category_id) ==
    LET rows == {r \in pos : /\ r.status \in active_statuses
                             /\ r.order_date # NoDate
                             /\ (category_id = NoCategory \/ r.category_id = category_id)}
        keys == {<<r.category_id, strftime_month(r.order_date)>> : r \in rows}
    IN  [k \in keys |->
            SumPOValue({r \in rows : /\ r.category_id = k[1]
                                     /\ strftime_month(r.order_date) = k[2]})]

\* _get_approved_adjustment_totals without the test of the status
_get_adjustment_totals_any_status(adjs, category_id) ==
    LET from_rows == {r \in adjs : /\ r.from_category_id # NoCategory
                                   /\ (category_id = NoCategory
                                       \/ r.from_category_id = category_id)}
        to_rows == {r \in adjs : /\ r.to_category_id # NoCategory
                                 /\ (category_id = NoCategory
                                     \/ r.to_category_id = category_id)}
        keys == {<<"from", r.from_category_id>> : r \in from_rows}
                \cup {<<"to", r.to_category_id>> : r \in to_rows}
    IN  [k \in keys |->
            IF k[1] = "from"
            THEN SumAmount({r \in from_rows : r.from_category_id = k[2]})
            ELSE SumAmount({r \in to_rows : r.to_category_id = k[2]})]

_get_approved_adjustment_totals(adjs, category_id) ==
    LET from_rows == {r \in adjs : /\ r.status = "approved"
                                   /\ r.from_category_id # NoCategory
                                   /\ (category_id = NoCategory
                                       \/ r.from_category_id = category_id)}
        to_rows == {r \in adjs : /\ r.status = "approved"
                                 /\ r.to_category_id # NoCategory
                                 /\ (category_id = NoCategory
                                     \/ r.to_category_id = category_id)}
        keys == {<<"from", r.from_category_id>> : r \in from_rows}
                \cup {<<"to", r.to_category_id>> : r \in to_rows}
    IN  [k \in keys |->
            IF k[1] = "from"
            THEN SumAmount({r \in from_rows : r.from_category_id = k[2]})
            ELSE SumAmount({r \in to_rows : r.to_category_id = k[2]})]

----------------------------------------------------------------------------
(* Position store *)

get_by_composite_key(pos, category_id, month) ==
    {r \in pos : r.category_id = category_id /\ r.month = month}

get_by_season_and_category(pos, category_id) ==
    {r \in pos : r.category_id = category_id}

\* an upsert that adds the new plan figure to the stored one
upsert_accumulating(pos, category_id, month, planned_otb, consumed_otb, available_otb, t) ==
    LET existing == {r \in pos : r.category_id = category_id /\ r.month = month}
    IN  IF existing # {}
        THEN (pos \ existing) \cup
             {[r EXCEPT !.planned_otb = r.planned_otb + planned_otb,
                        !.consumed_otb = consumed_otb,
                        !.available_otb = available_otb,
                        !.last_calculated = t] : r \in existing}
        ELSE pos \cup {[category_id |-> category_id,
                        month |-> FirstOfMonth(month),
                        planned_otb |-> planned_otb,
                        consumed_otb |-> consumed_otb,
                        available_otb |-> available_otb,
                        last_calculated |-> t]}

\* OTBPositionRepository.upsert at clock value t
upsert(pos, category_id, month, planned_otb, consumed_otb, available_otb, t) ==
    LET existing == get_by_composite_key(pos, category_id, month)
    IN  IF existing # {}
        THEN (pos \ existing) \cup
             {[r EXCEPT !.planned_otb = planned_otb,
                        !.consumed_otb = consumed_otb,
                        !.available_otb = available_otb,
                        !.last_calculated = t] : r \in existing}
        ELSE pos \cup {[category_id |-> category_id,
                        month |-> FirstOfMonth(month),
                        planned_otb |-> planned_otb,
                        consumed_otb |-> consumed_otb,
                        available_otb |-> available_otb,
                        last_calculated |-> t]}

----------------------------------------------------------------------------
(* Recalculation: the loop of recalculate_season / recalculate_category *)

\* BucketFigures without the clamp at zero
UnclampedFigures(key, planned_otb, consumed, adj) ==
    LET category_id == key[1]
        effective_planned == planned_otb + DictGet(adj, <<"to", category_id>>, 0)
                                         - DictGet(adj, <<"from", category_id>>, 0)
        consumed_otb == DictGet(consumed, key, 0)
    IN  <<effective_planned, consumed_otb, effective_planned - consumed_otb>>

\* lines 96-103 (and 135-141): the figures of one bucket,
\* <<effective_planned, consumed_otb, available_otb>>
\* BucketFigures that debits the outgoing adjustments but never credits the
\* incoming ones
DebitOnlyFigures(key, planned_otb, consumed, adj) ==
    LET adj_out == DictGet(adj, <<"from", key[1]>>, 0)
        effective_planned == planned_otb - adj_out
        consumed_otb == DictGet(consumed, key, 0)
    IN  <<effective_planned, consumed_otb, Max(effective_planned - consumed_otb, 0)>>

BucketFigures(key, planned_otb, consumed, adj) ==
    LET category_id == key[1]
        adj_in == DictGet(adj, <<"to", category_id>>, 0)
        adj_out == DictGet(adj, <<"from", category_id>>, 0)
        effective_planned == planned_otb + adj_in - adj_out
        consumed_otb == DictGet(consumed, key, 0)
        available_otb == Max(effective_planned - consumed_otb, 0)
    IN  <<effective_planned, consumed_otb, available_otb>>

RECURSIVE UpsertEach(_, _, _, _, _, _)
UpsertEach(pos, keys, planned, consumed, adj, t) ==
    IF keys = {} THEN pos
    ELSE LET key == CHOOSE k \in keys : TRUE
             fig == BucketFigures(key, planned[key], consumed, adj)
         IN  UpsertEach(upsert(pos, key[1], key[2], fig[1], fig[2], fig[3], t),
                        keys \ {key}, planned, consumed, adj, t)

\* recalculate_season that also materializes the buckets that only the
\* consumption aggregation knows
recalculate_season_all_buckets(pos, plans, orders, adjs, t) ==
    LET planned == _get_planned_otb_by_category_month(plans, NoCategory)
        consumed == _get_consumed_otb_by_category_month(orders, NoCategory)
        adj == _get_approved_adjustment_totals(adjs, NoCategory)
        keys == DOMAIN planned \cup DOMAIN consumed
        figures == [k \in keys |-> DictGet(planned, k, 0)]
    IN  UpsertEach(pos, keys, figures, consumed, adj, t)

\* the position table after recalculate_season
recalculate_season(pos, plans, orders, adjs, t) ==
    LET planned == _get_planned_otb_by_category_month(plans, NoCategory)
        consumed == _get_consumed_otb_by_category_month(orders, NoCategory)
        adj == _get_approved_adjustment_totals(adjs, NoCategory)
    IN  UpsertEach(pos, DOMAIN planned, planned, consumed, adj, t)

\* recalculate_category that leaves the approved adjustments out
recalculate_category_unadjusted(pos, plans, orders, adjs, category_id, t) ==
    LET planned == _get_planned_otb_by_category_month(plans, category_id)
        consumed == _get_consumed_otb_by_category_month(orders, category_id)
        adj == [k \in {} |-> 0]
    IN  UpsertEach(pos, DOMAIN planned, planned, consumed, adj, t)

\* the position table after recalculate_category
recalculate_category(pos, plans, orders, adjs, category_id, t) ==
    LET planned == _get_planned_otb_by_category_month(plans, category_id)
        consumed == _get_consumed_otb_by_category_month(orders, category_id)
        adj == _get_approved_adjustment_totals(adjs, category_id)
    IN  UpsertEach(pos, DOMAIN planned, planned, consumed, adj, t)

----------------------------------------------------------------------------
(* Initial state: a season just created (create_with_workflow), empty tables *)

NoResponse == [op |-> "none", code |-> 0, id |-> 0]
\* what the caller gets back: the request, its HTTP status, the adjustment id
Response(op, code, id) == [op |-> op, code |-> code, id |-> id]

\* a session not yet used: no request read, no HTTP status returned
IdleReq == [pc |-> "idle", kind |-> "none", id |-> 0, user |-> 0, code |-> 0]

Init ==
    /\ season_status = "created"
    /\ workflow = [locations_defined |-> FALSE, plan_uploaded |-> FALSE,
                   otb_uploaded |-> FALSE, range_uploaded |-> FALSE, locked |-> FALSE]
    /\ otb_plans = {}
    /\ purchase_orders = {}
    /\ adjustments = {}
    /\ positions = {}
    /\ now = 0
    /\ response = NoResponse
    /\ reqs = [r \in ReqIds |-> IdleReq]
    /\ audit_logs = {}

----------------------------------------------------------------------------
(* Season workflow: WorkflowOrchestrator *)

\* _verify_season_state, then update_workflow_step and update_status
WorkflowStep(op, expected_status, step, new_status) ==
    /\ IF season_status # expected_status
       THEN /\ response' = Response(op, 400, 0)
            /\ UNCHANGED <<season_status, workflow>>
       ELSE /\ workflow' = [workflow EXCEPT ![step] = TRUE]
            /\ season_status' = new_status
            /\ response' = Response(op, 200, 0)
    /\ UNCHANGED <<otb_plans, purchase_orders, adjustments, positions, now, reqs, audit_logs>>

complete_location_definition ==
    WorkflowStep("complete_location_definition", "created",
                 "locations_defined", "locations_defined")

complete_plan_upload ==
    WorkflowStep("complete_plan_upload", "locations_defined",
                 "plan_uploaded", "plan_uploaded")

complete_otb_upload ==
    WorkflowStep("complete_otb_upload", "plan_uploaded",
                 "otb_uploaded", "otb_uploaded")

complete_range_upload ==
    WorkflowStep("complete_range_upload", "otb_uploaded",
                 "range_uploaded", "range_uploaded")

lock_season ==
    WorkflowStep("lock_season", "range_uploaded", "locked", "locked")

----------------------------------------------------------------------------
(* OTB plan rows: OTBService *)

\* can_upload_otb without the check of the plan_uploaded flag
can_upload_otb_unflagged ==
    IF season_status = "locked" THEN 403 ELSE 0

\* WorkflowGuard.can_upload_otb: 0 when allowed, else the HTTP status raised
can_upload_otb ==
    IF season_status = "locked" THEN 403
    ELSE IF ~workflow.plan_uploaded THEN 400
    ELSE 0

\* guard of update/delete: not locked and not progressed past the OTB upload
check_otb_is_mutable ==
    IF season_status = "locked" THEN 403
    ELSE IF workflow.range_uploaded THEN 400
    ELSE 0

get_plan_by_composite_key(location_id, category_id, month) ==
    {r \in otb_plans : /\ r.location_id = location_id
                       /\ r.category_id = category_id
                       /\ r.month = month}

create_otb_plan(location_id, category_id, month, planned_sales, planned_closing_stock, opening_stock, on_order) ==
    /\ IF can_upload_otb # 0
       THEN /\ response' = Response("create_otb_plan", can_upload_otb, 0)
            /\ UNCHANGED otb_plans
       ELSE IF get_plan_by_composite_key(location_id, category_id, month) # {}
       THEN /\ response' = Response("create_otb_plan", 409, 0)
            /\ UNCHANGED otb_plans
       ELSE /\ otb_plans' = otb_plans \cup
                {[location_id |-> location_id,
                  category_id |-> category_id,
                  month |-> FirstOfMonth(month),
                  planned_sales |-> planned_sales,
                  planned_closing_stock |-> planned_closing_stock,
                  opening_stock |-> opening_stock,
                  on_order |-> on_order,
                  approved_spend_limit |->
                      calculate_otb(planned_sales, planned_closing_stock,
                                    opening_stock, on_order)]}
            /\ response' = Response("create_otb_plan", 201, 0)
    /\ UNCHANGED <<season_status, workflow, purchase_orders, adjustments,
                   positions, now, reqs, audit_logs>>

delete_otb_plan(plan, user_id) ==
    /\ plan \in otb_plans
    /\ IF check_otb_is_mutable # 0
       THEN /\ response' = Response("delete_otb_plan", check_otb_is_mutable, 0)
            /\ UNCHANGED <<otb_plans, audit_logs>>
       ELSE /\ otb_plans' = otb_plans \ {plan}
            /\ audit_logs' = audit_logs \cup
                   {AuditEntry("OTBPlan", <<plan.category_id, plan.month.m>>,
                               "delete", user_id)}
            /\ response' = Response("delete_otb_plan", 204, 0)
    /\ UNCHANGED <<season_status, workflow, purchase_orders, adjustments,
                   positions, now, reqs>>

----------------------------------------------------------------------------
(* Purchase orders: POIngestService *)

\* PO and GRN ingestion is open once the range is uploaded, also when locked
can_ingest_po_grn ==
    IF season_status \notin {"range_uploaded", "locked"} THEN 400 ELSE 0

\* guard of update/delete: the season is not locked
check_po_grn_is_mutable ==
    IF season_status = "locked" THEN 403 ELSE 0

create_purchase_order(po_number, category_id, order_date, po_value, status) ==
    /\ IF can_ingest_po_grn # 0
       THEN /\ response' = Response("create_purchase_order", can_ingest_po_grn, 0)
            /\ UNCHANGED purchase_orders
       ELSE IF \E r \in purchase_orders : r.po_number = po_number
       THEN /\ response' = Response("create_purchase_order", 409, 0)
            /\ UNCHANGED purchase_orders
       ELSE /\ purchase_orders' = purchase_orders \cup
                {[po_number |-> po_number,
                  category_id |-> category_id,
                  order_date |-> order_date,
                  po_value |-> po_value,
                  status |-> status]}
            /\ response' = Response("create_purchase_order", 201, 0)
    /\ UNCHANGED <<season_status, workflow, otb_plans, adjustments,
                   positions, now, reqs, audit_logs>>

delete_purchase_order(po, user_id) ==
    /\ po \in purchase_orders
    /\ IF check_po_grn_is_mutable # 0
       THEN /\ response' = Response("delete_purchase_order", check_po_grn_is_mutable, 0)
            /\ UNCHANGED <<purchase_orders, audit_logs>>
       ELSE /\ purchase_orders' = purchase_orders \ {po}
            /\ audit_logs' = audit_logs \cup
                   {AuditEntry("PurchaseOrder", po.po_number, "delete", user_id)}
            /\ response' = Response("delete_purchase_order", 204, 0)
    /\ UNCHANGED <<season_status, workflow, otb_plans, adjustments,
                   positions, now, reqs>>

----------------------------------------------------------------------------
(* OTB calculation engine: the requests of api/v1/otb_management.py *)

\* AdjustmentRepository.get_by_id
get_by_id(adjs, id) == {r \in adjs : r.id = id}

\* POST /{season_id}/recalculate
recalculate_otb ==
    /\ positions' = recalculate_season(positions, otb_plans, purchase_orders,
                                       adjustments, now)
    /\ response' = Response("recalculate_season", 200, 0)
    /\ UNCHANGED <<season_status, workflow, otb_plans, purchase_orders,
                   adjustments, now, reqs, audit_logs>>

\* GET /{season_id}/position: the stored rows as they are
get_otb_position ==
    /\ response' = [op |-> "get_position", code |-> 200, id |-> 0, body |-> positions]
    /\ UNCHANGED <<season_status, workflow, otb_plans, purchase_orders, adjustments,
                   positions, now, reqs, audit_logs>>

\* recalculate_category called for one category
RecalculateCategoryCall(category_id) ==
    /\ positions' = recalculate_category(positions, otb_plans, purchase_orders,
                                         adjustments, category_id, now)
    /\ response' = Response("recalculate_category", 200, category_id)
    /\ UNCHANGED <<season_status, workflow, otb_plans, purchase_orders,
                   adjustments, now, reqs, audit_logs>>

\* lines 429-437 of create_adjustment: the row as inserted
PendingRow(id, from_category_id, to_category_id, amount, user_id) ==
    [id |-> id,
     from_category_id |-> from_category_id,
     to_category_id |-> to_category_id,
     amount |-> amount,
     status |-> "pending",
     approved_by |-> NoUser,
     approved_at |-> NoTime,
     rejection_reason |-> NoReason,
     created_by |-> user_id]

\* create_adjustment without the budget check OTB-001
create_unchecked(from_category_id, to_category_id, amount, user_id) ==
    /\ LET id == Cardinality(adjustments) + 1
       IN  IF season_status = "locked"
           THEN /\ response' = Response("create_adjustment", 403, 0)
                /\ UNCHANGED <<adjustments, audit_logs>>
           ELSE /\ adjustments' = adjustments \cup
                    {PendingRow(id, from_category_id, to_category_id, amount, user_id)}
                /\ audit_logs' = audit_logs \cup
                    {AuditEntry("OTBAdjustment", id, "create", user_id)}
                /\ response' = Response("create_adjustment", 201, id)
    /\ UNCHANGED <<season_status, workflow, otb_plans, purchase_orders,
                   positions, now, reqs>>

\* create_adjustment without the test of the season's status OTB-003
create_unlocked(from_category_id, to_category_id, amount, user_id) ==
    /\ LET total_available ==
               SumAvailable(get_by_season_and_category(positions, from_category_id))
           id == Cardinality(adjustments) + 1
       IN  IF from_category_id # NoCategory /\ total_available < amount
           THEN /\ response' = Response("create_adjustment", 400, 0)
                /\ UNCHANGED <<adjustments, audit_logs>>
           ELSE /\ adjustments' = adjustments \cup
                    {PendingRow(id, from_category_id, to_category_id, amount, user_id)}
                /\ audit_logs' = audit_logs \cup
                    {AuditEntry("OTBAdjustment", id, "create", user_id)}
                /\ response' = Response("create_adjustment", 201, id)
    /\ UNCHANGED <<season_status, workflow, otb_plans, purchase_orders,
                   positions, now, reqs>>

create_adjustment(from_category_id, to_category_id, amount, user_id) ==
    /\ LET total_available ==
               SumAvailable(get_by_season_and_category(positions, from_category_id))
           id == Cardinality(adjustments) + 1
       IN  IF season_status = "locked"
           THEN /\ response' = Response("create_adjustment", 403, 0)
                /\ UNCHANGED <<adjustments, audit_logs>>
           ELSE IF from_category_id # NoCategory /\ total_available < amount
           THEN /\ response' = Response("create_adjustment", 400, 0)
                /\ UNCHANGED <<adjustments, audit_logs>>
           ELSE /\ adjustments' = adjustments \cup
                    {PendingRow(id, from_category_id, to_category_id, amount, user_id)}
                /\ audit_logs' = audit_logs \cup
                    {AuditEntry("OTBAdjustment", id, "create", user_id)}
                /\ response' = Response("create_adjustment", 201, id)
    /\ UNCHANGED <<season_status, workflow, otb_plans, purchase_orders,
                   positions, now, reqs>>

\* lines 467-471 of approve_adjustment: the row as flushed
ApprovedRow(adj, approver_id, t) ==
    [adj EXCEPT !.status = "approved", !.approved_by = approver_id, !.approved_at = t]

\* lines 506-511 of reject_adjustment: the row as flushed
RejectedRow(adj, reviewer_id, rejection_reason, t) ==
    [adj EXCEPT !.status = "rejected", !.approved_by = reviewer_id,
                !.approved_at = t, !.rejection_reason = rejection_reason]

\* RecalculateAffected that forgets the receiving category
RecalculateSourceOnly(pos, plans, orders, adjs, adj, t) ==
    IF adj.from_category_id # NoCategory
    THEN recalculate_category(pos, plans, orders, adjs, adj.from_category_id, t)
    ELSE pos

\* lines 473-477 of approve_adjustment: recalculate the affected categories
RecalculateAffected(pos, plans, orders, adjs, adj, t) ==
    LET after_from ==
            IF adj.from_category_id # NoCategory
            THEN recalculate_category(pos, plans, orders, adjs, adj.from_category_id, t)
            ELSE pos
    IN  IF adj.to_category_id # NoCategory
        THEN recalculate_category(after_from, plans, orders, adjs, adj.to_category_id, t)
        ELSE after_from

\* approve_adjustment without the test of the row's status
approve_unguarded(adjustment_id, approver_id) ==
    /\ LET found == get_by_id(adjustments, adjustment_id)
       IN  IF found = {}
           THEN /\ response' = Response("approve_adjustment", 404, adjustment_id)
                /\ UNCHANGED <<adjustments, positions, audit_logs>>
           ELSE LET adj == CHOOSE r \in found : TRUE
                    row == ApprovedRow(adj, approver_id, now)
                    adjs == (adjustments \ {adj}) \cup {row}
                IN  /\ adjustments' = adjs
                    /\ positions' = RecalculateAffected(positions, otb_plans,
                                        purchase_orders, adjs, row, now)
                    /\ audit_logs' = audit_logs \cup
                           {AuditEntry("OTBAdjustment", adjustment_id, "approve", approver_id)}
                    /\ response' = Response("approve_adjustment", 200, adjustment_id)
    /\ UNCHANGED <<season_status, workflow, otb_plans, purchase_orders, now, reqs>>

\* approve_adjustment that writes no audit entry
approve_unaudited(adjustment_id, approver_id) ==
    /\ LET found == get_by_id(adjustments, adjustment_id)
       IN  IF found = {}
           THEN /\ response' = Response("approve_adjustment", 404, adjustment_id)
                /\ UNCHANGED <<adjustments, positions>>
           ELSE LET adj == CHOOSE r \in found : TRUE
                IN  IF adj.status # "pending"
                    THEN /\ response' = Response("approve_adjustment", 400, adjustment_id)
                         /\ UNCHANGED <<adjustments, positions>>
                    ELSE LET row == ApprovedRow(adj, approver_id, now)
                             adjs == (adjustments \ {adj}) \cup {row}
                         IN  /\ adjustments' = adjs
                             /\ positions' = RecalculateAffected(positions, otb_plans,
                                                 purchase_orders, adjs, row, now)
                             /\ response' = Response("approve_adjustment", 200,
                                                     adjustment_id)
    /\ UNCHANGED <<season_status, workflow, otb_plans, purchase_orders, now, reqs,
                   audit_logs>>

approve_adjustment(adjustment_id, approver_id) ==
    /\ LET found == get_by_id(adjustments, adjustment_id)
       IN  IF found = {}
           THEN /\ response' = Response("approve_adjustment", 404, adjustment_id)
                /\ UNCHANGED <<adjustments, positions, audit_logs>>
           ELSE LET adj == CHOOSE r \in found : TRUE
                IN  IF adj.status # "pending"
                    THEN /\ response' = Response("approve_adjustment", 400, adjustment_id)
                         /\ UNCHANGED <<adjustments, positions, audit_logs>>
                    ELSE LET row == ApprovedRow(adj, approver_id, now)
                             adjs == (adjustments \ {adj}) \cup {row}
                         IN  /\ adjustments' = adjs
                             /\ positions' = RecalculateAffected(positions, otb_plans,
                                                 purchase_orders, adjs, row, now)
                             /\ audit_logs' = audit_logs \cup
                                    {AuditEntry("OTBAdjustment", adjustment_id,
                                                "approve", approver_id)}
                             /\ response' = Response("approve_adjustment", 200,
                                                     adjustment_id)
    /\ UNCHANGED <<season_status, workflow, otb_plans, purchase_orders, now, reqs>>

\* reject_adjustment without the test of the row's status
reject_unguarded(adjustment_id, reviewer_id, rejection_reason) ==
    /\ LET found == get_by_id(adjustments, adjustment_id)
       IN  IF found = {}
           THEN /\ response' = Response("reject_adjustment", 404, adjustment_id)
                /\ UNCHANGED <<adjustments, audit_logs>>
           ELSE LET adj == CHOOSE r \in found : TRUE
                IN  /\ adjustments' = (adjustments \ {adj}) \cup
                           {RejectedRow(adj, reviewer_id, rejection_reason, now)}
                    /\ audit_logs' = audit_logs \cup
                           {AuditEntry("OTBAdjustment", adjustment_id, "update", reviewer_id)}
                    /\ response' = Response("reject_adjustment", 200, adjustment_id)
    /\ UNCHANGED <<season_status, workflow, otb_plans, purchase_orders,
                   positions, now, reqs>>

\* reject_adjustment that recalculates the affected categories as an
\* approval does
reject_recalculating(adjustment_id, reviewer_id, rejection_reason) ==
    /\ LET found == get_by_id(adjustments, adjustment_id)
       IN  IF found = {}
           THEN /\ response' = Response("reject_adjustment", 404, adjustment_id)
                /\ UNCHANGED <<adjustments, positions, audit_logs>>
           ELSE LET adj == CHOOSE r \in found : TRUE
                IN  IF adj.status # "pending"
                    THEN /\ response' = Response("reject_adjustment", 400, adjustment_id)
                         /\ UNCHANGED <<adjustments, positions, audit_logs>>
                    ELSE /\ adjustments' = (adjustments \ {adj}) \cup
                                {RejectedRow(adj, reviewer_id, rejection_reason, now)}
                         /\ positions' = RecalculateAffected(positions, otb_plans,
                                             purchase_orders, adjustments', adj, now)
                         /\ audit_logs' = audit_logs \cup
                                {AuditEntry("OTBAdjustment", adjustment_id, "update",
                                            reviewer_id)}
                         /\ response' = Response("reject_adjustment", 200, adjustment_id)
    /\ UNCHANGED <<season_status, workflow, otb_plans, purchase_orders, now, reqs>>

reject_adjustment(adjustment_id, reviewer_id, rejection_reason) ==
    /\ LET found == get_by_id(adjustments, adjustment_id)
       IN  IF found = {}
           THEN /\ response' = Response("reject_adjustment", 404, adjustment_id)
                /\ UNCHANGED <<adjustments, audit_logs>>
           ELSE LET adj == CHOOSE r \in found : TRUE
                IN  IF adj.status # "pending"
                    THEN /\ response' = Response("reject_adjustment", 400, adjustment_id)
                         /\ UNCHANGED <<adjustments, audit_logs>>
                    ELSE /\ adjustments' = (adjustments \ {adj}) \cup
                                {RejectedRow(adj, reviewer_id, rejection_reason, now)}
                         /\ audit_logs' = audit_logs \cup
                                {AuditEntry("OTBAdjustment", adjustment_id, "update",
                                            reviewer_id)}
                         /\ response' = Response("reject_adjustment", 200, adjustment_id)
    /\ UNCHANGED <<season_status, workflow, otb_plans, purchase_orders,
                   positions, now, reqs>>

----------------------------------------------------------------------------
(* Dashboard and alerts: aggregates read from the position store.  The     *)
(* category names and the rounded percentages of the responses are left    *)
(* out; the figures and the alerts raised are kept.                        *)

\* SELECT sum(planned_otb), sum(consumed_otb), sum(available_otb)
get_season_totals(pos) ==
    [total_planned |-> SumPlanned(pos),
     total_consumed |-> SumConsumed(pos),
     total_available |-> SumAvailable(pos)]

\* get_category_summary that leaves out the rows without a category
get_category_summary_named(pos) ==
    {[category_id |-> c,
      total_planned |-> SumPlanned(get_by_season_and_category(pos, c)),
      total_consumed |-> SumConsumed(get_by_season_and_category(pos, c)),
      total_available |-> SumAvailable(get_by_season_and_category(pos, c))] :
        c \in {p.category_id : p \in pos} \ {NoCategory}}

\* ... GROUP BY category_id: one row per category, NULL being a group too
get_category_summary(pos) ==
    {[category_id |-> c,
      total_planned |-> SumPlanned(get_by_season_and_category(pos, c)),
      total_consumed |-> SumConsumed(get_by_season_and_category(pos, c)),
      total_available |-> SumAvailable(get_by_season_and_category(pos, c))] :
        c \in {p.category_id : p \in pos}}

\* ... GROUP BY month
get_month_summary(pos) ==
    {[month |-> m,
      planned_otb |-> SumPlanned({p \in pos : p.month = m}),
      consumed_otb |-> SumConsumed({p \in pos : p.month = m}),
      available_otb |-> SumAvailable({p \in pos : p.month = m})] :
        m \in {p.month : p \in pos}}

\* the OTBDashboardResponse built from the three queries
get_dashboard(pos) ==
    LET totals == get_season_totals(pos)
    IN  [total_planned |-> totals.total_planned,
         total_consumed |-> totals.total_consumed,
         total_available |-> totals.total_available,
         by_category |-> get_category_summary(pos),
         by_month |-> get_month_summary(pos)]

OTBAlert(alert_type, severity, category_id) ==
    [alert_type |-> alert_type, severity |-> severity, category_id |-> category_id]

\* the alerts of one category summary row; planned is the set of the
\* positive category totals, whose mean is avg_planned.
\* round(tc / tp * 100, 2) < 50 is 20000 * tc < 9999 * tp: the quotient is
\* rounded half-even to two places, so all of [49.995, 50) becomes 50.00.
CategoryAlerts(cs, planned_sum, planned_count) ==
    LET tp == cs.total_planned
        tc == cs.total_consumed
        ta == cs.total_available
        diff == IF tp * planned_count >= planned_sum
                THEN tp * planned_count - planned_sum
                ELSE planned_sum - tp * planned_count
    IN  IF tp <= 0 THEN {}
        ELSE (IF ta * 100 < tp * DEFAULT_LOW_OTB_THRESHOLD
              THEN {OTBAlert("low_otb", "warning", cs.category_id)} ELSE {})
             \cup
             (IF tc > tp
              THEN {OTBAlert("otb_exceeded", "critical", cs.category_id)} ELSE {})
             \cup
             (IF tc * 20000 < tp * (DEFAULT_UNDERUTILIZED_THRESHOLD * 200 - 1)
              THEN {OTBAlert("underutilized", "warning", cs.category_id)} ELSE {})
             \cup
             (IF planned_sum > 0 /\ diff * 100 > DEFAULT_IMBALANCE_THRESHOLD * planned_sum
              THEN {OTBAlert("category_imbalance", "warning", cs.category_id)} ELSE {})

RECURSIVE SumTotalPlanned(_)
SumTotalPlanned(S) ==
    IF S = {} THEN 0
    ELSE LET r == CHOOSE x \in S : TRUE IN r.total_planned + SumTotalPlanned(S \ {r})

\* get_alerts that also raises low_otb at exactly 20% of the planned total
get_alerts_inclusive(pos) ==
    LET cat_summary == get_category_summary(pos)
    IN  UNION {IF cs.total_planned > 0
                  /\ cs.total_available * 100 <= cs.total_planned * DEFAULT_LOW_OTB_THRESHOLD
               THEN {OTBAlert("low_otb", "warning", cs.category_id)}
               ELSE {} : cs \in cat_summary}
        \cup
        UNION {IF cs.total_planned > 0 /\ cs.total_consumed > cs.total_planned
               THEN {OTBAlert("otb_exceeded", "critical", cs.category_id)}
               ELSE {} : cs \in cat_summary}

\* the items of the OTBAlertListResponse
get_alerts(pos) ==
    LET cat_summary == get_category_summary(pos)
        all_planned == {cs \in cat_summary : cs.total_planned > 0}
    IN  UNION {CategoryAlerts(cs, SumTotalPlanned(all_planned), Cardinality(all_planned)) :
                 cs \in cat_summary}

\* GET /{season_id}/dashboard: recalculates, then reads the aggregates
get_otb_dashboard ==
    /\ positions' = recalculate_season(positions, otb_plans, purchase_orders,
                                       adjustments, now)
    /\ response' = [op |-> "get_dashboard", code |-> 200, id |-> 0,
                    body |-> get_dashboard(positions')]
    /\ UNCHANGED <<season_status, workflow, otb_plans, purchase_orders,
                   adjustments, now, reqs, audit_logs>>

\* GET /{season_id}/alerts: recalculates, then derives the alerts
get_otb_alerts ==
    /\ positions' = recalculate_season(positions, otb_plans, purchase_orders,
                                       adjustments, now)
    /\ response' = [op |-> "get_alerts", code |-> 200, id |-> 0,
                    body |-> get_alerts(positions')]
    /\ UNCHANGED <<season_status, workflow, otb_plans, purchase_orders,
                   adjustments, now, reqs, audit_logs>>

----------------------------------------------------------------------------
(* Approve and reject requests on sessions of their own (get_db_session):  *)
(* the handler first reads the row (get_by_id, a plain SELECT), later      *)
(* flushes its UPDATE by primary key, recalculates and commits.  Other     *)
(* sessions see the write once it is committed; a writer waits for the     *)
(* writer before it, so flush..commit of one request is one step here.     *)

\* lines 455-465 / 494-504: get_by_id and the two tests of what it returned
ReadStatus(r, kind, adjustment_id, user_id) ==
    /\ reqs[r].pc = "idle"
    /\ LET found == get_by_id(adjustments, adjustment_id)
           op == IF kind = "approve" THEN "approve_adjustment" ELSE "reject_adjustment"
           req == [pc |-> "checked", kind |-> kind, id |-> adjustment_id,
                   user |-> user_id, code |-> 0]
       IN  IF found = {}
           THEN /\ reqs' = [reqs EXCEPT ![r] = [req EXCEPT !.pc = "done", !.code = 404]]
                /\ response' = Response(op, 404, adjustment_id)
           ELSE IF \E adj \in found : adj.status # "pending"
           THEN /\ reqs' = [reqs EXCEPT ![r] = [req EXCEPT !.pc = "done", !.code = 400]]
                /\ response' = Response(op, 400, adjustment_id)
           ELSE /\ reqs' = [reqs EXCEPT ![r] = req]
                /\ UNCHANGED response
    /\ UNCHANGED <<season_status, workflow, otb_plans, purchase_orders,
                   adjustments, positions, now, audit_logs>>

\* lines 467-488 / 506-522 and the commit of get_db_session: the UPDATE sets
\* the changed columns of the row with this id, whatever its status is by now
WriteStatus(r) ==
    /\ reqs[r].pc = "checked"
    /\ LET req == reqs[r]
           adj == CHOOSE a \in adjustments : a.id = req.id
       IN  IF req.kind = "approve"
           THEN LET row == ApprovedRow(adj, req.user, now)
                    adjs == (adjustments \ {adj}) \cup {row}
                IN  /\ adjustments' = adjs
                    /\ positions' = RecalculateAffected(positions, otb_plans,
                                        purchase_orders, adjs, row, now)
                    /\ audit_logs' = audit_logs \cup
                           {AuditEntry("OTBAdjustment", req.id, "approve", req.user)}
                    /\ response' = Response("approve_adjustment", 200, req.id)
           ELSE /\ adjustments' = (adjustments \ {adj}) \cup
                       {RejectedRow(adj, req.user, "r", now)}
                /\ UNCHANGED positions
                /\ audit_logs' = audit_logs \cup
                       {AuditEntry("OTBAdjustment", req.id, "update", req.user)}
                /\ response' = Response("reject_adjustment", 200, req.id)
    /\ reqs' = [reqs EXCEPT ![r] = [@ EXCEPT !.pc = "done", !.code = 200]]
    /\ UNCHANGED <<season_status, workflow, otb_plans, purchase_orders, now>>

----------------------------------------------------------------------------
(* recalculate_season on sessions of their own.  For each bucket, upsert   *)
(* first looks the position up (get_by_composite_key, a SELECT that sees   *)
(* committed rows and the session's own), then inserts or updates; the     *)
(* session commits when the request returns.  A write to a key another     *)
(* session has written and not yet committed waits for that session; an    *)
(* INSERT of a key that is committed by then breaks the unique constraint  *)
(* uq_otb_position_season_category_month: IntegrityError, the request      *)
(* fails and its session is rolled back.                                   *)

\* UniqueConstraint("season_id", "category_id", "month"): the INSERT of a
\* row whose category and month are stored already is refused.  A NULL
\* category_id is distinct from every other NULL, so rows without a category
\* are never refused.
ViolatesUnique(pos, category_id, month) ==
    /\ category_id # NoCategory
    /\ \E r \in pos : r.category_id = category_id /\ r.month = month

\* keys of a set of position rows
KeysOf(rows) == {<<p.category_id, p.month>> : p \in rows}

\* lines 75-92 of recalculate_season: the request has read its inputs
BeginRecalculate(r) ==
    /\ reqs[r].pc = "idle"
    /\ reqs' = [reqs EXCEPT ![r] =
                  [pc |-> "lookup", kind |-> "recalculate", id |-> 0, user |-> 0,
                   code |-> 0,
                   todo |-> DOMAIN _get_planned_otb_by_category_month(otb_plans, NoCategory),
                   found |-> {}, staged |-> {}]]
    /\ UNCHANGED <<season_status, workflow, otb_plans, purchase_orders, adjustments,
                   positions, now, response, audit_logs>>

\* an empty plan: nothing to upsert, the request returns
ReturnEmpty(r) ==
    /\ reqs[r].pc = "lookup" /\ reqs[r].todo = {}
    /\ reqs' = [reqs EXCEPT ![r] = [@ EXCEPT !.pc = "done", !.code = 200]]
    /\ response' = Response("recalculate_season", 200, 0)
    /\ UNCHANGED <<season_status, workflow, otb_plans, purchase_orders, adjustments,
                   positions, now, audit_logs>>

\* otb_position_repo.py line 142: existing = get_by_composite_key(...)
LookUpExisting(r) ==
    /\ reqs[r].pc = "lookup" /\ reqs[r].todo # {}
    /\ LET key == CHOOSE k \in reqs[r].todo : TRUE
           visible == {p \in positions : <<p.category_id, p.month>> \notin
                                             KeysOf(reqs[r].staged)}
                      \cup reqs[r].staged
       IN  reqs' = [reqs EXCEPT ![r] =
                      [@ EXCEPT !.pc = "write",
                                !.found = get_by_composite_key(visible, key[1], key[2])]]
    /\ UNCHANGED <<season_status, workflow, otb_plans, purchase_orders, adjustments,
                   positions, now, response, audit_logs>>

\* the adjustment rows a session sees: the committed ones and, for an
\* approval, its own flushed update of the row
SessionLedger(r) ==
    IF reqs[r].kind = "approve"
    THEN {a \in adjustments : a.id # reqs[r].id} \cup reqs[r].ledger
    ELSE adjustments

\* the request whose error or commit the caller is answered with
RequestOp(r) ==
    IF reqs[r].kind = "approve" THEN "approve_adjustment" ELSE "recalculate_season"

\* InsertOrUpdate on a connection that commits every statement
InsertOrUpdateAutocommit(r) ==
    /\ reqs[r].pc = "write"
    /\ LET req == reqs[r]
           key == CHOOSE k \in req.todo : TRUE
           planned == _get_planned_otb_by_category_month(otb_plans, NoCategory)
           consumed == _get_consumed_otb_by_category_month(purchase_orders, NoCategory)
           adj == _get_approved_adjustment_totals(SessionLedger(r), NoCategory)
           fig == BucketFigures(key, planned[key], consumed, adj)
           left == req.todo \ {key}
       IN  /\ positions' = upsert(positions, key[1], key[2], fig[1], fig[2], fig[3], now)
           /\ reqs' = [reqs EXCEPT ![r] =
                         [req EXCEPT !.pc = IF left = {} THEN "commit" ELSE "lookup",
                                     !.todo = left,
                                     !.found = {}]]
    /\ UNCHANGED <<season_status, workflow, otb_plans, purchase_orders, adjustments,
                   response, now, audit_logs>>

\* otb_position_repo.py lines 143-162: the UPDATE or the INSERT of the bucket
InsertOrUpdate(r) ==
    /\ reqs[r].pc = "write"
    /\ LET req == reqs[r]
           key == CHOOSE k \in req.todo : TRUE
           planned == _get_planned_otb_by_category_month(otb_plans, NoCategory)
           consumed == _get_consumed_otb_by_category_month(purchase_orders, NoCategory)
           adj == _get_approved_adjustment_totals(SessionLedger(r), NoCategory)
           fig == BucketFigures(key, planned[key], consumed, adj)
           rows == upsert(req.found, key[1], key[2], fig[1], fig[2], fig[3], now)
           left == req.todo \ {key}
       IN  /\ \A o \in ReqIds \ {r} :
                 reqs[o].pc \in {"lookup", "write", "commit"} => key \notin KeysOf(reqs[o].staged)
           /\ IF req.found = {} /\ ViolatesUnique(positions, key[1], FirstOfMonth(key[2]))
              THEN /\ reqs' = [reqs EXCEPT ![r] =
                                 [req EXCEPT !.pc = "done", !.code = 500, !.staged = {}]]
                   /\ response' = Response(RequestOp(r), 500, req.id)
              ELSE /\ reqs' = [reqs EXCEPT ![r] =
                                 [req EXCEPT !.pc = IF left = {} THEN "commit" ELSE "lookup",
                                             !.todo = left,
                                             !.found = {},
                                             !.staged = req.staged \cup rows]]
                   /\ UNCHANGED response
    /\ UNCHANGED <<season_status, workflow, otb_plans, purchase_orders, adjustments,
                   positions, now, audit_logs>>

\* get_db_session: the commit after the handler returned
CommitRecalculate(r) ==
    /\ reqs[r].pc = "commit" /\ reqs[r].kind = "recalculate"
    /\ positions' = {p \in positions : <<p.category_id, p.month>> \notin
                                           KeysOf(reqs[r].staged)}
                    \cup reqs[r].staged
    /\ reqs' = [reqs EXCEPT ![r] = [@ EXCEPT !.pc = "done", !.code = 200, !.staged = {}]]
    /\ response' = Response("recalculate_season", 200, 0)
    /\ UNCHANGED <<season_status, workflow, otb_plans, purchase_orders, adjustments,
                   now, audit_logs>>

\* lines 455-471 of approve_adjustment on a session of its own: the row is
\* read and tested, its update flushed; the buckets of the affected
\* categories are left to recalculate
BeginApprove(r, adjustment_id, approver_id) ==
    /\ reqs[r].pc = "idle"
    /\ LET found == get_by_id(adjustments, adjustment_id)
           req == [pc |-> "lookup", kind |-> "approve", id |-> adjustment_id,
                   user |-> approver_id, code |-> 0, todo |-> {}, found |-> {},
                   staged |-> {}, ledger |-> {}]
       IN  IF found = {}
           THEN /\ reqs' = [reqs EXCEPT ![r] = [req EXCEPT !.pc = "done", !.code = 404]]
                /\ response' = Response("approve_adjustment", 404, adjustment_id)
           ELSE LET adj == CHOOSE a \in found : TRUE
                    affected == {adj.from_category_id, adj.to_category_id} \ {NoCategory}
                    keys == {k \in DOMAIN _get_planned_otb_by_category_month(otb_plans,
                                                                            NoCategory) :
                                k[1] \in affected}
                IN  IF adj.status # "pending"
                    THEN /\ reqs' = [reqs EXCEPT ![r] =
                                       [req EXCEPT !.pc = "done", !.code = 400]]
                         /\ response' = Response("approve_adjustment", 400, adjustment_id)
                    ELSE /\ reqs' = [reqs EXCEPT ![r] =
                                       [req EXCEPT
                                          !.pc = IF keys = {} THEN "commit" ELSE "lookup",
                                          !.todo = keys,
                                          !.ledger = {ApprovedRow(adj, approver_id, now)}]]
                         /\ UNCHANGED response
    /\ UNCHANGED <<season_status, workflow, otb_plans, purchase_orders, adjustments,
                   positions, now, audit_logs>>

\* get_db_session: the commit of an approval, with its audit entry
CommitApprove(r) ==
    /\ reqs[r].pc = "commit" /\ reqs[r].kind = "approve"
    /\ positions' = {p \in positions : <<p.category_id, p.month>> \notin
                                           KeysOf(reqs[r].staged)}
                    \cup reqs[r].staged
    /\ adjustments' = SessionLedger(r)
    /\ audit_logs' = audit_logs \cup
           {AuditEntry("OTBAdjustment", reqs[r].id, "approve", reqs[r].user)}
    /\ reqs' = [reqs EXCEPT ![r] =
                  [@ EXCEPT !.pc = "done", !.code = 200, !.staged = {}, !.ledger = {}]]
    /\ response' = Response("approve_adjustment", 200, reqs[r].id)
    /\ UNCHANGED <<season_status, workflow, otb_plans, purchase_orders, now>>

\* a statement or the commit of the request fails in the storage: the error
\* leaves the handler and get_db_session rolls the session back
StorageFailure(r) ==
    /\ reqs[r].pc \in {"lookup", "write", "commit"}
    /\ reqs' = [reqs EXCEPT ![r] =
                  IF reqs[r].kind = "approve"
                  THEN [@ EXCEPT !.pc = "done", !.code = 500, !.staged = {}, !.ledger = {}]
                  ELSE [@ EXCEPT !.pc = "done", !.code = 500, !.staged = {}]]
    /\ response' = Response(RequestOp(r), 500, reqs[r].id)
    /\ UNCHANGED <<season_status, workflow, otb_plans, purchase_orders, adjustments,
                   positions, now, audit_logs>>

----------------------------------------------------------------------------
(* Time passes between requests *)

Tick ==
    /\ now < MaxClock
    /\ now' = now + 1
    /\ UNCHANGED <<season_status, workflow, otb_plans, purchase_orders,
                   adjustments, positions, response, reqs, audit_logs>>

----------------------------------------------------------------------------
(* Requests served one at a time, their inputs drawn from the given sets *)

AdjIds == 1..(MaxAdj + 1)

WorkflowNext ==
    \/ complete_location_definition
    \/ complete_plan_upload
    \/ complete_otb_upload
    \/ complete_range_upload
    \/ lock_season

\* OTBPlanCreate normalises month to the first of the month (validate_month)
PlanNext(categories, months, inputs) ==
    \/ \E l \in Locations, c \in categories, m \in months, d \in Days, i \in inputs :
            create_otb_plan(l, c, FirstOfMonth(Date(m, d)), i[1], 0, i[2], 0)
    \/ \E plan \in otb_plans, u \in Actors : delete_otb_plan(plan, u)

PONext(categories, dates, values, statuses) ==
    \/ \E n \in PONumbers, c \in categories, dt \in dates, v \in values,
          st \in statuses : create_purchase_order(n, c, dt, v, st)
    \/ \E po \in purchase_orders, u \in Actors : delete_purchase_order(po, u)

EngineNext(users, sources, targets) ==
    \/ recalculate_otb
    \/ /\ Cardinality(adjustments) < MaxAdj
       /\ \E f \in sources, t \in targets, a \in 1..MaxAmount, u \in Actors :
             create_adjustment(f, t, a, u)
    \/ \E id \in AdjIds, u \in users : approve_adjustment(id, u)
    \/ \E id \in AdjIds, u \in users, why \in Reasons : reject_adjustment(id, u, why)

----------------------------------------------------------------------------
(* Spec: the engine at work on a season whose plan rows and purchase orders *)
(* are in, until and after the season is locked                            *)

PlanRow(location_id, category_id, month, planned_sales, opening_stock) ==
    [location_id |-> location_id,
     category_id |-> category_id,
     month |-> month,
     planned_sales |-> planned_sales,
     planned_closing_stock |-> 0,
     opening_stock |-> opening_stock,
     on_order |-> 0,
     approved_spend_limit |-> calculate_otb(planned_sales, 0, opening_stock, 0)]

\* plan tables as create_otb_plan builds them: at most one row per
\* (location, category, month); <<0, 0>> stands for "no row".  Category 1 is
\* planned in up to two months, category 2 in at most one.
PlanChoice(k) ==
    IF k[2] = 1 /\ k[3] = 1 THEN {<<0, 0>>, <<1, 0>>, <<0, 1>>}
    ELSE IF k[2] = 2 /\ k[3] = 2 THEN {<<0, 0>>}
    ELSE {<<0, 0>>, <<1, 0>>}

PlanTables ==
    LET keys == Locations \X Categories \X Months
    IN  {{PlanRow(k[1], k[2], Date(k[3], 1), f[k][1], f[k][2]) :
            k \in {x \in keys : f[x] # <<0, 0>>}} :
         f \in {g \in [keys -> {<<0, 0>>, <<1, 0>>, <<0, 1>>}] :
                    \A k \in keys : g[k] \in PlanChoice(k)}}

RangeUploaded ==
    [locations_defined |-> TRUE, plan_uploaded |-> TRUE, otb_uploaded |-> TRUE,
     range_uploaded |-> TRUE, locked |-> FALSE]

InitStored ==
    /\ season_status = "range_uploaded"
    /\ workflow = RangeUploaded
    /\ otb_plans \in PlanTables
    /\ purchase_orders = {}
    /\ adjustments = {}
    /\ positions = {}
    /\ now = 0
    /\ response = NoResponse
    /\ reqs = [r \in ReqIds |-> IdleReq]
    /\ audit_logs = {}

Next ==
    \/ EngineNext({1}, {NoCategory, 1}, {NoCategory, 2})
    \/ lock_season

Spec == InitStored /\ [][Next]_vars

----------------------------------------------------------------------------
(* SpecLife: a season from its creation on, every operation interleaved *)

LifeNext ==
    \/ WorkflowNext
    \/ PlanNext(Categories, {1}, {<<1, 0>>, <<0, 1>>})
    \/ PONext({1}, {Date(1, 2), NoDate}, {3}, {"draft"})
    \/ EngineNext({1}, {1}, {2})

SpecLife == Init /\ [][LifeNext]_vars

----------------------------------------------------------------------------
(* SpecClock: the engine's requests made by two users while time passes    *)

\* category 1 planned in two months, category 2 in one
ClockPlans ==
    {PlanRow(1, 1, Date(1, 1), 1, 0), PlanRow(1, 1, Date(2, 1), 1, 0),
     PlanRow(1, 2, Date(1, 1), 1, 0)}

InitClock ==
    /\ season_status = "range_uploaded"
    /\ workflow = RangeUploaded
    /\ otb_plans = ClockPlans
    /\ purchase_orders = {}
    /\ adjustments = {}
    /\ positions = {}
    /\ now = 0
    /\ response = NoResponse
    /\ reqs = [r \in ReqIds |-> IdleReq]
    /\ audit_logs = {}

ClockNext ==
    \/ EngineNext(Users, {NoCategory, 1}, {2})
    \/ Tick

SpecClock == InitClock /\ [][ClockNext]_vars

----------------------------------------------------------------------------
(* SpecConc: two sessions at work on a ledger that holds a pending         *)
(* adjustment, their reads and writes interleaved                          *)

\* the ledger after one create_adjustment on the recalculated season
PendingLedgers ==
    {{PendingRow(1, f, 2, a, u)} : f \in {NoCategory, 1}, a \in 1..MaxAmount, u \in Actors}

InitConc ==
    /\ season_status = "range_uploaded"
    /\ workflow = RangeUploaded
    /\ otb_plans = ClockPlans
    /\ purchase_orders = {}
    /\ adjustments \in PendingLedgers
    /\ positions = recalculate_season({}, ClockPlans, {}, {}, 0)
    /\ now = 0
    /\ response = Response("create_adjustment", 201, 1)
    /\ reqs = [r \in ReqIds |-> IdleReq]
    /\ audit_logs = {AuditEntry("OTBAdjustment", a.id, "create", a.created_by) :
                        a \in adjustments}

ConcNext ==
    \/ \E r \in ReqIds, kind \in {"approve", "reject"}, id \in AdjIds, u \in Users :
          ReadStatus(r, kind, id, u)
    \/ \E r \in ReqIds : WriteStatus(r)
    \/ Tick

SpecConc == InitConc /\ [][ConcNext]_vars

----------------------------------------------------------------------------
(* SpecRecalc: two sessions recalculate the same season, whose plan rows,  *)
(* purchase orders and adjustments do not change meanwhile                 *)

\* the ledger is empty or holds one approved transfer from category 1 to 2
StoredLedgers ==
    {{}, {ApprovedRow(PendingRow(1, 1, 2, 1, 1), 2, 0)}}

InitRecalc ==
    /\ season_status = "range_uploaded"
    /\ workflow = RangeUploaded
    /\ otb_plans \in {{}, ClockPlans}
    /\ purchase_orders = {}
    /\ adjustments \in StoredLedgers
    /\ positions \in {{}, recalculate_season({}, otb_plans, {}, adjustments, 0)}
    /\ now = 0
    /\ response = NoResponse
    /\ reqs = [r \in ReqIds |-> IdleReq]
    /\ audit_logs = {AuditEntry("OTBAdjustment", a.id, "create", a.created_by) :
                        a \in adjustments}
                    \cup {AuditEntry("OTBAdjustment", a.id, "approve", a.approved_by) :
                             a \in adjustments}

RecalcNext ==
    \/ \E r \in ReqIds : BeginRecalculate(r)
    \/ \E r \in ReqIds : ReturnEmpty(r)
    \/ \E r \in ReqIds : LookUpExisting(r)
    \/ \E r \in ReqIds : InsertOrUpdate(r)
    \/ \E r \in ReqIds : CommitRecalculate(r)
    \/ Tick

SpecRecalc == InitRecalc /\ [][RecalcNext]_vars

----------------------------------------------------------------------------
(* SpecUpsert: OTBPositionRepository.upsert called directly, with any date *)
(* of a month and any figures, on a store that starts empty                *)

\* figures handed to upsert: <<planned_otb, consumed_otb, available_otb>>
UpsertFigures == {<<1, 0, 1>>, <<MaxAmount, 1, MaxAmount - 1>>}

\* upsert and the flush of its write.  scalar_one_or_none raises
\* MultipleResultsFound when the look-up matches several rows, and an INSERT
\* refused by the unique constraint raises IntegrityError: nothing is written.
\* Rows carry no id here: two rows equal in every column count as one.
UpsertCall(category_id, month, planned_otb, consumed_otb, available_otb) ==
    /\ LET existing == get_by_composite_key(positions, category_id, month)
       IN  IF \/ Cardinality(existing) > 1
              \/ existing = {} /\ ViolatesUnique(positions, category_id, FirstOfMonth(month))
           THEN /\ response' = Response("upsert", 500, 0)
                /\ UNCHANGED positions
           ELSE /\ positions' = upsert(positions, category_id, month, planned_otb,
                                       consumed_otb, available_otb, now)
                /\ response' = Response("upsert", 200, 0)
    /\ UNCHANGED <<season_status, workflow, otb_plans, purchase_orders, adjustments,
                   now, reqs, audit_logs>>

InitUpsert ==
    /\ season_status = "range_uploaded"
    /\ workflow = RangeUploaded
    /\ otb_plans = {}
    /\ purchase_orders = {}
    /\ adjustments = {}
    /\ positions = {}
    /\ now = 0
    /\ response = NoResponse
    /\ reqs = [r \in ReqIds |-> IdleReq]
    /\ audit_logs = {}

\* (category, month) pairs handed to upsert
UpsertKeys == {<<1, m>> : m \in Months} \cup {<<NoCategory, 1>>}

UpsertNext ==
    \/ \E k \in UpsertKeys, d \in Days, f \in UpsertFigures :
          UpsertCall(k[1], Date(k[2], d), f[1], f[2], f[3])
    \/ Tick

SpecUpsert == InitUpsert /\ [][UpsertNext]_vars

----------------------------------------------------------------------------
(* SpecLedger: recalculations of a season whose ledger already holds       *)
(* pending, approved and rejected adjustments, among them one out of       *)
(* category 1 and one into it                                              *)

\* an adjustment row as create_adjustment, approve_adjustment or
\* reject_adjustment left it
LedgerRow(id, from_category_id, to_category_id, amount, status) ==
    LET row == PendingRow(id, from_category_id, to_category_id, amount, 1)
    IN  IF status = "approved" THEN ApprovedRow(row, 2, 0)
        ELSE IF status = "rejected" THEN RejectedRow(row, 2, "r", 0)
        ELSE row

Ledgers ==
    {{}}
    \cup {{LedgerRow(1, 1, 2, a, s)} : a \in 1..MaxAmount, s \in AdjustmentStatus}
    \cup {{LedgerRow(1, 1, 2, a, s1), LedgerRow(2, f, 1, 1, s2)} :
            a \in 1..MaxAmount, s1 \in AdjustmentStatus,
            f \in {NoCategory, 2}, s2 \in AdjustmentStatus}

\* ClockPlans with a second location planning category 1 in month 1
SharedBucketPlans == ClockPlans \cup {PlanRow(2, 1, Date(1, 1), 1, 0)}

\* no purchase order, or one active order dated inside month 1
OrderTables ==
    {{}, {[po_number |-> 1, category_id |-> 1, order_date |-> Date(1, 2),
           po_value |-> 3, status |-> "draft"]}}

\* the audit entries the requests that built the ledger have written
LedgerAudit(adjs) ==
    {AuditEntry("OTBAdjustment", a.id, "create", a.created_by) : a \in adjs}
    \cup {AuditEntry("OTBAdjustment", a.id, "approve", a.approved_by) :
             a \in {x \in adjs : x.status = "approved"}}
    \cup {AuditEntry("OTBAdjustment", a.id, "update", a.approved_by) :
             a \in {x \in adjs : x.status = "rejected"}}

InitLedger ==
    /\ season_status = "range_uploaded"
    /\ workflow = RangeUploaded
    /\ otb_plans \in PlanTables \cup {SharedBucketPlans}
    /\ purchase_orders \in OrderTables
    /\ adjustments \in Ledgers
    /\ positions = {}
    /\ now = 0
    /\ response = NoResponse
    /\ reqs = [r \in ReqIds |-> IdleReq]
    /\ audit_logs = LedgerAudit(adjustments)

LedgerNext ==
    \/ recalculate_otb
    \/ \E c \in Categories : RecalculateCategoryCall(c)
    \/ \E id \in AdjIds : approve_adjustment(id, 2)
    \/ \E id \in AdjIds : reject_adjustment(id, 2, "r")

SpecLedger == InitLedger /\ [][LedgerNext]_vars

----------------------------------------------------------------------------
(* SpecDash: the dashboard and the alerts read from a position store that  *)
(* holds rows as upsert stores them, with and without a plan behind them   *)

\* <<planned_otb, consumed_otb, available_otb>> of a stored row
StoredFigures ==
    {<<1000, 850, 150>>, <<10, 8, 2>>, <<5, 6, 0>>, <<0, 1, 0>>, <<-1, 0, 0>>,
     <<1, 0, 1>>}

\* the buckets that may hold a stored row.  ClockPlans has no plan row for
\* category 2 in month 2 and none without a category, so a recalculation
\* leaves those rows as they are; it overwrites the row of category 1.
StoredKeys == {<<NoCategory, Date(1, 1)>>, <<1, Date(2, 1)>>, <<2, Date(2, 1)>>}

RECURSIVE UpsertAll(_, _, _)
UpsertAll(pos, keys, f) ==
    IF keys = {} THEN pos
    ELSE LET k == CHOOSE x \in keys : TRUE
         IN  UpsertAll(upsert(pos, k[1], k[2], f[k][1], f[k][2], f[k][3], 0),
                       keys \ {k}, f)

StoredPositions ==
    {UpsertAll({}, keys, f) : keys \in SUBSET StoredKeys,
                              f \in [StoredKeys -> StoredFigures]}

InitDash ==
    /\ season_status = "range_uploaded"
    /\ workflow = RangeUploaded
    /\ otb_plans \in {{}, ClockPlans}
    /\ purchase_orders = {}
    /\ adjustments = {}
    /\ positions \in StoredPositions
    /\ now = 0
    /\ response = NoResponse
    /\ reqs = [r \in ReqIds |-> IdleReq]
    /\ audit_logs = {}

DashNext ==
    \/ get_otb_dashboard
    \/ get_otb_alerts

SpecDash == InitDash /\ [][DashNext]_vars

----------------------------------------------------------------------------
(* SpecStale: plan rows are created and deleted while the OTB upload is    *)
(* open, between recalculations and reads of the position store            *)

OTBUploaded ==
    [locations_defined |-> TRUE, plan_uploaded |-> TRUE, otb_uploaded |-> TRUE,
     range_uploaded |-> FALSE, locked |-> FALSE]

InitStale ==
    /\ season_status = "otb_uploaded"
    /\ workflow = OTBUploaded
    /\ otb_plans \in PlanTables
    /\ purchase_orders = {}
    /\ adjustments = {}
    /\ positions = {}
    /\ now = 0
    /\ response = NoResponse
    /\ reqs = [r \in ReqIds |-> IdleReq]
    /\ audit_logs = {}

StaleNext ==
    \/ recalculate_otb
    \/ get_otb_position
    \/ PlanNext({1}, {1}, {<<1, 0>>, <<0, 1>>})

SpecStale == InitStale /\ [][StaleNext]_vars

----------------------------------------------------------------------------
(* SpecAudit: adjustments created, approved and rejected one request at a  *)
(* time on a season with a fixed plan, watched through the audit log       *)

InitAudit ==
    /\ season_status = "range_uploaded"
    /\ workflow = RangeUploaded
    /\ otb_plans \in {ClockPlans, SharedBucketPlans}
    /\ purchase_orders = {}
    /\ adjustments = {}
    /\ positions = {}
    /\ now = 0
    /\ response = NoResponse
    /\ reqs = [r \in ReqIds |-> IdleReq]
    /\ audit_logs = {}

AuditNext == EngineNext({1}, {NoCategory, 1}, {2})

SpecAudit == InitAudit /\ [][AuditNext]_vars

----------------------------------------------------------------------------
(* SpecFail: recalculate and approve requests, statement by statement, on  *)
(* a storage that may fail at any statement                                *)

FailNext ==
    \/ \E r \in ReqIds : BeginRecalculate(r)
    \/ \E r \in ReqIds, id \in AdjIds, u \in Users : BeginApprove(r, id, u)
    \/ \E r \in ReqIds : LookUpExisting(r)
    \/ \E r \in ReqIds : InsertOrUpdate(r)
    \/ \E r \in ReqIds : CommitRecalculate(r)
    \/ \E r \in ReqIds : CommitApprove(r)
    \/ \E r \in ReqIds : StorageFailure(r)

SpecFail == InitConc /\ [][FailNext]_vars

----------------------------------------------------------------------------
(* Shorthands of the properties *)

\* a position table without its timestamps
Figures(pos) ==
    {[category_id |-> p.category_id, month |-> p.month,
      planned_otb |-> p.planned_otb, consumed_otb |-> p.consumed_otb,
      available_otb |-> p.available_otb] : p \in pos}

PlansOf(category_id) == {r \in otb_plans : r.category_id = category_id}
PositionsOf(category_id) == {p \in positions : p.category_id = category_id}
Approved == {a \in adjustments : a.status = "approved"}

----------------------------------------------------------------------------
(* C1: every stored position row has                                       *)
(* available_otb = max(planned_otb - consumed_otb, 0), so available_otb is *)
(* never negative, whatever requests have been served in whatever order.   *)

----------------------------------------------------------------------------
(* C2: with exactly one approved adjustment of amount A from category X to *)
(* category Y, both with plan rows, the positions left by                  *)
(* recalculate_season have sum(planned_otb) over X = X's plan total - A,   *)
(* over Y = Y's plan total + A, and over the season = the plan total.      *)

C2_Conservation ==
    (/\ response.op = "recalculate_season"
     /\ Cardinality(Approved) = 1)
    => LET a == CHOOSE r \in Approved : TRUE
           X == a.from_category_id
           Y == a.to_category_id
       IN  (/\ X # NoCategory /\ Y # NoCategory /\ X # Y
            /\ PlansOf(X) # {} /\ PlansOf(Y) # {})
           => /\ SumPlanned(PositionsOf(X)) = SumLimit(PlansOf(X)) - a.amount
              /\ SumPlanned(PositionsOf(Y)) = SumLimit(PlansOf(Y)) + a.amount
              /\ SumPlanned(positions) = SumLimit(otb_plans)

----------------------------------------------------------------------------
(* C3: every adjustment row is created pending; its status changes only    *)
(* pending -> approved or pending -> rejected; a row that is approved or   *)
(* rejected stays in the ledger and its status, approved_by, approved_at   *)
(* and rejection_reason never change again.                                *)

C3_Lifecycle ==
    [][/\ \A a \in adjustments : \E b \in get_by_id(adjustments', a.id) :
             /\ b.status # a.status
                => a.status = "pending" /\ b.status \in {"approved", "rejected"}
             /\ a.status # "pending"
                => /\ b.status = a.status
                   /\ b.approved_by = a.approved_by
                   /\ b.approved_at = a.approved_at
                   /\ b.rejection_reason = a.rejection_reason
       /\ \A b \in adjustments' :
             get_by_id(adjustments, b.id) = {} => b.status = "pending"]_vars

\* an approved row on which the other user, later, tried a rejection
C3_Witness ==
    /\ response.op = "reject_adjustment" /\ response.code = 400
    /\ \E a \in get_by_id(adjustments, response.id) :
          a.status = "approved" /\ a.approved_by # NoUser /\ a.approved_at < now

----------------------------------------------------------------------------
(* C4: of two approve_adjustment calls for the same pending adjustment,    *)
(* however their read-status and write-status steps interleave, exactly    *)
(* one succeeds and the other fails with InvalidStateError (400); the row  *)
(* ends approved with the approved_by of the call that succeeded.          *)

C4_OneApprovalSucceeds ==
    \A r1 \in ReqIds : \A r2 \in ReqIds \ {r1} :
        (/\ reqs[r1].pc = "done" /\ reqs[r2].pc = "done"
         /\ reqs[r1].kind = "approve" /\ reqs[r2].kind = "approve"
         /\ reqs[r1].id = reqs[r2].id
         /\ get_by_id(adjustments, reqs[r1].id) # {})
        => /\ {reqs[r1].code, reqs[r2].code} = {200, 400}
           /\ \A a \in get_by_id(adjustments, reqs[r1].id) :
                 /\ a.status = "approved"
                 /\ reqs[r1].code = 200 => a.approved_by = reqs[r1].user

----------------------------------------------------------------------------
(* C5: approve_adjustment on an adjustment that is already approved or     *)
(* rejected fails with InvalidStateError (400), triggers no recalculation  *)
(* and leaves the adjustment and all positions unchanged; on an unknown id *)
(* it fails with NotFoundError (404) and changes nothing.                  *)

----------------------------------------------------------------------------
(* C6: creation guard.  The inputs a create_adjustment step may carry:     *)

Sources == Categories \cup {NoCategory}
Amounts == 1..MaxAmount

\* the step inserts exactly one pending row carrying the request's values
InsertsOnePending(f, t, a) ==
    \E row \in adjustments' :
        /\ row \notin adjustments
        /\ adjustments' = adjustments \cup {row}
        /\ row.status = "pending"
        /\ row.from_category_id = f /\ row.to_category_id = t /\ row.amount = a
        /\ response'.code = 201

\* the step is refused with the given HTTP status and creates no row
Refused(code) == response'.code = code /\ adjustments' = adjustments

(* C6 as amended: in a season that is not locked, create_adjustment with   *)
(* from_category set fails with InsufficientBudgetError (400) whenever the *)
(* available_otb of that category's position rows sums to less than the    *)
(* amount, and creates no row; otherwise it inserts exactly one pending    *)
(* row.  In a locked season it fails with the locked-season error (403)    *)
(* whatever the budget is, and creates no row.                             *)
C6_CreationGuard ==
    [][\A f \in Sources, t \in Sources, a \in Amounts, u \in Actors :
          create_adjustment(f, t, a, u) =>
              IF season_status = "locked" THEN Refused(403)
              ELSE IF f # NoCategory /\ SumAvailable(PositionsOf(f)) < a
                   THEN Refused(400)
                   ELSE InsertsOnePending(f, t, a)]_vars

(* C6 as the specification words it: create_adjustment with from_category  *)
(* set fails with InsufficientBudgetError whenever the available sum is    *)
(* less than the amount, and no row is created; when the sum is enough (or *)
(* from_category is null) and the season is not locked, exactly one        *)
(* pending row is inserted.                                                *)
C6_AsWorded ==
    [][\A f \in Sources, t \in Sources, a \in Amounts, u \in Actors :
          create_adjustment(f, t, a, u) =>
              IF f # NoCategory /\ SumAvailable(PositionsOf(f)) < a
              THEN Refused(400)
              ELSE season_status # "locked" => InsertsOnePending(f, t, a)]_vars

\* a transfer refused for lack of budget although the source has some left
C6_Witness ==
    /\ response = Response("create_adjustment", 400, 0)
    /\ season_status # "locked"
    /\ SumAvailable(PositionsOf(1)) > 0
    /\ adjustments = {}

----------------------------------------------------------------------------
(* C7: when approve_adjustment returns successfully, the stored positions  *)
(* of from_category and of to_category (each when non-null) are what a     *)
(* recalculation of that category produces with the adjustment counted as  *)
(* approved: recalculating again changes no figure.                        *)

C7_ApproveRecalculates ==
    (response.op = "approve_adjustment" /\ response.code = 200)
    => \E adj \in get_by_id(adjustments, response.id) :
          /\ adj.status = "approved"
          /\ \A c \in {adj.from_category_id, adj.to_category_id} \ {NoCategory} :
                /\ \A plan \in PlansOf(c) :
                      get_by_composite_key(positions, c, plan.month) # {}
                /\ Figures(recalculate_category(positions, otb_plans, purchase_orders,
                                                adjustments, c, now))
                   = Figures(positions)

\* an approval just returned that moved budget between two planned categories
C7_Witness ==
    /\ response.op = "approve_adjustment" /\ response.code = 200
    /\ \E adj \in get_by_id(adjustments, response.id) :
          /\ adj.from_category_id # NoCategory /\ adj.to_category_id # NoCategory
          /\ adj.from_category_id # adj.to_category_id
          /\ \E p \in PositionsOf(adj.to_category_id) :
                \E plan \in PlansOf(adj.to_category_id) :
                    plan.month = p.month
                    /\ p.planned_otb = plan.approved_spend_limit + adj.amount
          /\ PositionsOf(adj.from_category_id) # {}

----------------------------------------------------------------------------
(* C8 as amended: calling recalculate_season again, with no plan, purchase *)
(* order or adjustment changed since the last call, leaves the same        *)
(* position rows: the same keys with the same planned_otb, consumed_otb    *)
(* and available_otb.  Only last_calculated is set to the time of the call.*)

C8_Idempotent ==
    response.op = "recalculate_season"
    => \A t \in now..MaxClock :
          Figures(recalculate_season(positions, otb_plans, purchase_orders,
                                     adjustments, t))
          = Figures(positions)

(* C8 as the specification words it: the second call yields identical      *)
(* position rows, the same keys and the same values in every field.        *)
C8_AsWorded ==
    response.op = "recalculate_season"
    => \A t \in now..MaxClock :
          recalculate_season(positions, otb_plans, purchase_orders, adjustments, t)
          = positions

\* recalculate_season has just run, later than the recalculation that let
\* the approved transfer out of category 1 be created
C8_Witness ==
    /\ response.op = "recalculate_season"
    /\ \E a \in Approved : a.from_category_id = 1
    /\ \E p \in positions : p.last_calculated > 0 /\ p.planned_otb # 1
    /\ now < MaxClock

----------------------------------------------------------------------------
(* C9: every stored position has planned_otb >= 0 and consumed_otb >= 0.   *)

C9_NonNegative ==
    \A p \in positions : p.planned_otb >= 0 /\ p.consumed_otb >= 0

----------------------------------------------------------------------------
(* C10: while the season is locked no request changes its adjustments or   *)
(* its positions: approve_adjustment, reject_adjustment and recalculation  *)
(* leave both tables as they were.                                         *)

C10_LockedIsImmutable ==
    [][season_status = "locked"
       => adjustments' = adjustments /\ positions' = positions]_vars

----------------------------------------------------------------------------
(* C11: create_adjustment for a season whose status is locked is refused   *)
(* with the locked-season error (403), whatever the requested categories   *)
(* and amount are, and inserts no adjustment row and no audit entry.       *)

C11_LockedCreateRefused ==
    [][\A f \in Sources, t \in Sources, a \in Amounts, u \in Actors :
          (season_status = "locked" /\ create_adjustment(f, t, a, u))
          => /\ response'.code = 403
             /\ adjustments' = adjustments
             /\ audit_logs' = audit_logs]_vars

\* a request refused in a locked season whose source category had the budget
C11_Witness ==
    /\ season_status = "locked"
    /\ response = Response("create_adjustment", 403, 0)
    /\ SumAvailable(PositionsOf(1)) >= MaxAmount
    /\ adjustments = {} /\ audit_logs = {}

----------------------------------------------------------------------------
(* C12: two recalculate_season calls on the same season run concurrently   *)
(* with unchanged inputs; however their look-up-existing and               *)
(* insert-or-update steps interleave, both calls complete without error    *)
(* and the store ends with exactly one position per (category, month),     *)
(* holding the figures a single recalculation produces.                    *)

C12_BothRecalculationsSucceed ==
    (\A r \in ReqIds : reqs[r].pc = "done" /\ reqs[r].kind = "recalculate")
    => /\ \A r \in ReqIds : reqs[r].code = 200
       /\ \A p \in positions, q \in positions :
             (p.category_id = q.category_id /\ p.month = q.month) => p = q
       /\ Figures(positions)
          = Figures(recalculate_season({}, otb_plans, purchase_orders, adjustments, now))

----------------------------------------------------------------------------
(* C13: after any sequence of upsert calls, for any date of a month, at    *)
(* most one position exists per (category, first of month); an upsert      *)
(* whose key (category, first of the month of its date) matches a stored   *)
(* position overwrites that position's planned, consumed and available     *)
(* figures and last_calculated and inserts nothing; otherwise it inserts   *)
(* one position whose month is the first day of the given month.           *)

C13_UpsertByKey ==
    [][\A k \in UpsertKeys, d \in Days, f \in UpsertFigures :
          UpsertCall(k[1], Date(k[2], d), f[1], f[2], f[3])
          => LET c == k[1]
                 dt == Date(k[2], d)
                 stored == get_by_composite_key(positions, c, FirstOfMonth(dt))
                 row == [category_id |-> c, month |-> FirstOfMonth(dt),
                         planned_otb |-> f[1], consumed_otb |-> f[2],
                         available_otb |-> f[3], last_calculated |-> now]
             IN  /\ positions' = (positions \ stored) \cup {row}
                 /\ \A p \in positions', q \in positions' :
                       (p.category_id = q.category_id
                        /\ FirstOfMonth(p.month) = FirstOfMonth(q.month)) => p = q]_vars

----------------------------------------------------------------------------
(* C14: after a recalculation, consumed_otb of every materialized bucket   *)
(* equals the sum of po_value over the season's purchase orders of that    *)
(* category whose order_date falls in that month, whose status is not      *)
(* cancelled and whose order_date is not null; cancelled orders and orders *)
(* without order_date contribute zero.                                     *)

OrdersOfBucket(category_id, month) ==
    {o \in purchase_orders : /\ o.category_id = category_id
                             /\ o.status # "cancelled"
                             /\ o.order_date # NoDate
                             /\ o.order_date.m = month.m}

C14_ConsumedIsOrderSum ==
    [][recalculate_otb
       => \A p \in positions' :
             p.consumed_otb = SumPOValue(OrdersOfBucket(p.category_id, p.month))]_vars

----------------------------------------------------------------------------
(* C15: for every (category, month) key of the plan aggregation,           *)
(* recalculate_season stores planned_otb = the sum of approved_spend_limit *)
(* of the bucket's plan rows + the total of approved adjustments into the  *)
(* category - the total of approved adjustments out of it; a category that *)
(* is the source of one approved adjustment and the target of another gets *)
(* both applied.                                                           *)

ApprovedInto(category_id) == {a \in Approved : a.to_category_id = category_id}
ApprovedOutOf(category_id) == {a \in Approved : a.from_category_id = category_id}

EffectivePlanned(category_id, month) ==
    SumLimit({r \in otb_plans : r.category_id = category_id /\ r.month = month})
    + SumAmount(ApprovedInto(category_id)) - SumAmount(ApprovedOutOf(category_id))

C15_EffectivePlanned ==
    [][recalculate_otb
       => \A r \in otb_plans :
             /\ \E p \in positions' : p.category_id = r.category_id /\ p.month = r.month
             /\ \A p \in positions' :
                   (p.category_id = r.category_id /\ p.month = r.month)
                   => p.planned_otb = EffectivePlanned(r.category_id, r.month)]_vars

\* a recalculation has stored a bucket of category 1 that two plan rows
\* share, with one approved adjustment out of category 1 and another into it
C15_Witness ==
    /\ response.op = "recalculate_season"
    /\ otb_plans = SharedBucketPlans
    /\ ApprovedInto(1) # {} /\ ApprovedOutOf(1) # {}
    /\ SumAmount(ApprovedInto(1)) # SumAmount(ApprovedOutOf(1))
    /\ \E p \in positions : /\ p.category_id = 1 /\ p.month = Date(1, 1)
                            /\ p.planned_otb = 2 + SumAmount(ApprovedInto(1))
                                                 - SumAmount(ApprovedOutOf(1))

----------------------------------------------------------------------------
(* C16: what recalculate_season and recalculate_category produce depends   *)
(* only on the adjustments whose status is approved: with the pending and  *)
(* rejected rows of the ledger taken away, both write the same positions.  *)

C16_OnlyApprovedCount ==
    /\ recalculate_season(positions, otb_plans, purchase_orders, adjustments, now)
       = recalculate_season(positions, otb_plans, purchase_orders, Approved, now)
    /\ \A c \in Categories :
          recalculate_category(positions, otb_plans, purchase_orders, adjustments, c, now)
          = recalculate_category(positions, otb_plans, purchase_orders, Approved, c, now)

\* a recalculation has run on a ledger holding an approved adjustment and a
\* pending or rejected one between categories that have positions
C16_Witness ==
    /\ response.op = "recalculate_season"
    /\ Approved # {}
    /\ \E a \in adjustments \ Approved :
          /\ a.from_category_id # NoCategory
          /\ PositionsOf(a.from_category_id) # {} /\ PositionsOf(a.to_category_id) # {}
    /\ positions = recalculate_season(positions, otb_plans, purchase_orders, Approved, now)

----------------------------------------------------------------------------
(* C17: a successful create_adjustment and a successful reject_adjustment  *)
(* leave every row of the position store as it was: neither inserts,       *)
(* updates or recalculates a position.                                     *)

C17_CreateRejectFrame ==
    [][/\ \A f \in Sources, t \in Sources, a \in Amounts, u \in Actors :
             (create_adjustment(f, t, a, u) /\ response'.code = 201)
             => positions' = positions
       /\ \A id \in AdjIds, u \in Users, why \in Reasons :
             (reject_adjustment(id, u, why) /\ response'.code = 200)
             => positions' = positions]_vars

\* a pending adjustment has been rejected while the position store did not
\* hold what a recalculation would write
C17_Witness ==
    /\ response = Response("reject_adjustment", 200, 1)
    /\ \E a \in adjustments : a.id = 1 /\ a.status = "rejected"
    /\ positions # recalculate_season(positions, otb_plans, purchase_orders,
                                      adjustments, now)

----------------------------------------------------------------------------
(* C18: recalculate_category(season, c) is recalculate_season restricted   *)
(* to c: whatever the plan rows, purchase orders and adjustments, the      *)
(* positions it writes for c's buckets are those recalculate_season would  *)
(* write for them, and it writes no position of another category.          *)

C18_CategoryIsSeasonRestricted ==
    [][\A c \in Categories :
          RecalculateCategoryCall(c)
          => LET season == recalculate_season(positions, otb_plans, purchase_orders,
                                              adjustments, now)
             IN  /\ {p \in positions' : p.category_id = c}
                    = {p \in season : p.category_id = c}
                 /\ {p \in positions' : p.category_id # c}
                    = {p \in positions : p.category_id # c}]_vars

\* category 1 has been recalculated alone, with approved adjustments out of
\* it and plan rows of both categories, while category 2 has no position yet
C18_Witness ==
    /\ response = Response("recalculate_category", 200, 1)
    /\ ApprovedOutOf(1) # {}
    /\ PlansOf(1) # {} /\ PlansOf(2) # {}
    /\ PositionsOf(1) # {} /\ PositionsOf(2) = {}
    /\ positions # recalculate_season(positions, otb_plans, purchase_orders,
                                      adjustments, now)

----------------------------------------------------------------------------
(* C19: the total_consumed of a dashboard equals the sum of total_consumed *)
(* over the entries of its by_category, the entry of the rows without a    *)
(* category included.                                                      *)

RECURSIVE SumTotalConsumed(_)
SumTotalConsumed(S) ==
    IF S = {} THEN 0
    ELSE LET r == CHOOSE x \in S : TRUE IN r.total_consumed + SumTotalConsumed(S \ {r})

C19_DashboardConsistent ==
    response.op = "get_dashboard"
    => response.body.total_consumed = SumTotalConsumed(response.body.by_category)

\* a dashboard over consumed rows of a category and of no category, next to
\* the rows a recalculation has written
C19_Witness ==
    /\ response.op = "get_dashboard"
    /\ otb_plans = ClockPlans
    /\ \E x \in response.body.by_category, y \in response.body.by_category :
          /\ x.category_id = NoCategory /\ x.total_consumed > 0
          /\ y.category_id = 2 /\ y.total_consumed > 0
    /\ \E z \in response.body.by_category : z.category_id = 1

----------------------------------------------------------------------------
(* C20: for every category whose total planned is above 0, get_alerts      *)
(* raises a low_otb alert (warning) exactly when its total available is    *)
(* below 20% of its total planned, and an otb_exceeded alert (critical)    *)
(* exactly when its total consumed is above its total planned; a category  *)
(* whose total planned is 0 or less raises no alert.  Planned 1000 with    *)
(* consumed 850 gives low_otb and no otb_exceeded.                         *)

AlertsOf(alerts, category_id) == {a \in alerts : a.category_id = category_id}

C20_AlertThresholds ==
    [][get_otb_alerts
       => \A c \in {p.category_id : p \in positions'} :
             LET rows == {p \in positions' : p.category_id = c}
                 tp == SumPlanned(rows)
                 tc == SumConsumed(rows)
                 ta == SumAvailable(rows)
                 mine == AlertsOf(response'.body, c)
             IN  IF tp > 0
                 THEN /\ (\E a \in mine : a.alert_type = "low_otb") <=> (5 * ta < tp)
                      /\ (\E a \in mine : a.alert_type = "otb_exceeded") <=> (tc > tp)
                      /\ \A a \in mine :
                            /\ a.alert_type = "low_otb" => a.severity = "warning"
                            /\ a.alert_type = "otb_exceeded" => a.severity = "critical"
                 ELSE mine = {}]_vars

\* alerts answered for a store in which category 2 totals planned 1000,
\* consumed 850, available 150 (low_otb, not exceeded), the rows without a
\* category sit exactly at 20% (no low_otb) and category 1 has consumed
\* more than planned (otb_exceeded)
C20_Witness ==
    /\ response.op = "get_alerts"
    /\ otb_plans = {}
    /\ \E p \in PositionsOf(2) : p.planned_otb = 1000 /\ p.consumed_otb = 850
    /\ OTBAlert("low_otb", "warning", 2) \in response.body
    /\ OTBAlert("otb_exceeded", "critical", 2) \notin response.body
    /\ \E p \in PositionsOf(NoCategory) : p.planned_otb = 10 /\ p.available_otb = 2
    /\ OTBAlert("low_otb", "warning", NoCategory) \notin response.body
    /\ \E p \in PositionsOf(1) : p.planned_otb = 5 /\ p.consumed_otb = 6
    /\ OTBAlert("otb_exceeded", "critical", 1) \in response.body

----------------------------------------------------------------------------
(* C21: recalculate_season creates or updates a position only for the      *)
(* (category, month) keys that have a plan row; purchase-order spend in a   *)
(* bucket without plan row creates no position and enters no stored        *)
(* consumed_otb.                                                           *)

PlanKeys == {<<r.category_id, r.month>> : r \in otb_plans}

\* the purchase orders whose category and month of order have a plan row
OrdersInPlannedBuckets ==
    {o \in purchase_orders :
        o.order_date # NoDate
        /\ \E r \in otb_plans : r.category_id = o.category_id /\ r.month.m = o.order_date.m}

C21_OnlyPlannedBuckets ==
    [][recalculate_otb
       => /\ \A p \in positions' :
                <<p.category_id, p.month>> \notin PlanKeys => p \in positions
          /\ \A p \in positions :
                <<p.category_id, p.month>> \notin PlanKeys => p \in positions'
          /\ positions' = recalculate_season(positions, otb_plans, OrdersInPlannedBuckets,
                                             adjustments, now)]_vars

\* a recalculation has run with an active dated order in a bucket that has
\* no plan row while other buckets are planned
C21_Witness ==
    /\ response.op = "recalculate_season"
    /\ purchase_orders \ OrdersInPlannedBuckets # {}
    /\ \A o \in purchase_orders : o.status \in active_statuses /\ o.order_date # NoDate
    /\ otb_plans # {} /\ positions # {}
    /\ \A o \in purchase_orders : ~ \E p \in positions : p.category_id = o.category_id
                                                       /\ p.month.m = o.order_date.m

----------------------------------------------------------------------------
(* C22: get_position returns positions that reflect the plan rows,         *)
(* purchase orders and approved adjustments current at the time of the     *)
(* call: the rows a recalculate_season at that moment would return, also   *)
(* when plan rows or purchase orders changed since the last recalculation. *)

C22_PositionIsCurrent ==
    [][get_otb_position
       => Figures(response'.body)
          = Figures(recalculate_season(positions, otb_plans, purchase_orders,
                                       adjustments, now))]_vars

----------------------------------------------------------------------------
(* C25: after recalculate_season returns, every stored position has        *)
(* planned_otb equal to the current effective plan of its bucket and       *)
(* consumed_otb equal to the current consumption of its bucket; no         *)
(* position keeps values derived from plan rows deleted or changed since.  *)

C25_NoStalePosition ==
    [][recalculate_otb
       => \A p \in positions' :
             /\ p.planned_otb = EffectivePlanned(p.category_id, p.month)
             /\ p.consumed_otb = SumPOValue(OrdersOfBucket(p.category_id, p.month))]_vars

----------------------------------------------------------------------------
(* C23: every successful create_adjustment, approve_adjustment and         *)
(* reject_adjustment appends exactly one audit entry for that adjustment,  *)
(* which is in the ledger in its new status by then; a call that fails     *)
(* validation appends none, and no engine operation removes or rewrites    *)
(* an audit entry.                                                         *)

\* the step adds one entry, about adjustment id, and keeps the others
AppendsOneEntry(id) ==
    /\ audit_logs \subseteq audit_logs'
    /\ Cardinality(audit_logs' \ audit_logs) = 1
    /\ \A e \in audit_logs' \ audit_logs :
          /\ e.entity_type = "OTBAdjustment" /\ e.entity_id = id
          /\ \E a \in adjustments' :
                /\ a.id = id
                /\ e.action = "create" => a.status = "pending" /\ a.created_by = e.user_id
                /\ e.action = "approve" => a.status = "approved" /\ a.approved_by = e.user_id
                /\ e.action = "update" => a.status = "rejected" /\ a.approved_by = e.user_id

C23_AuditTrail ==
    [][/\ \A f \in Sources, t \in Sources, a \in Amounts, u \in Actors :
             create_adjustment(f, t, a, u)
             => IF response'.code = 201 THEN AppendsOneEntry(response'.id)
                ELSE audit_logs' = audit_logs
       /\ \A id \in AdjIds, u \in Users :
             approve_adjustment(id, u)
             => IF response'.code = 200 THEN AppendsOneEntry(id)
                ELSE audit_logs' = audit_logs
       /\ \A id \in AdjIds, u \in Users, why \in Reasons :
             reject_adjustment(id, u, why)
             => IF response'.code = 200 THEN AppendsOneEntry(id)
                ELSE audit_logs' = audit_logs
       /\ recalculate_otb => audit_logs' = audit_logs]_vars

\* an adjustment has been created and approved, a further approval of it has
\* been refused, and the trail holds the two entries
C23_Witness ==
    /\ response = Response("approve_adjustment", 400, 1)
    /\ \E a \in Approved : a.id = 1
    /\ audit_logs = {AuditEntry("OTBAdjustment", 1, "create", 1),
                     AuditEntry("OTBAdjustment", 1, "approve", 1)}

----------------------------------------------------------------------------
(* C24: when the storage fails part-way through a recalculation, in a      *)
(* recalculate_season request or inside approve_adjustment, no effect of   *)
(* that request persists: the positions keep their values and the          *)
(* adjustment stays pending; what is stored changes only when a request    *)
(* commits.                                                                *)

C24_NoPartialState ==
    [][/\ (positions' # positions \/ adjustments' # adjustments
           \/ audit_logs' # audit_logs)
          => \E r \in ReqIds : /\ reqs[r].pc = "commit"
                               /\ reqs'[r].pc = "done" /\ reqs'[r].code = 200
       /\ \A r \in ReqIds :
             (reqs'[r].code = 500 /\ reqs[r].code # 500)
             => /\ positions' = positions /\ adjustments' = adjustments
                /\ audit_logs' = audit_logs
                /\ reqs'[r].pc = "done" /\ reqs'[r].staged = {}]_vars

\* an approval has failed after one of the three buckets it recalculates
\* was written; the adjustment is pending and the positions are those the
\* season had before
C24_Witness ==
    \E r \in ReqIds :
       /\ reqs[r].kind = "approve" /\ reqs[r].pc = "done" /\ reqs[r].code = 500
       /\ Cardinality(reqs[r].todo) = 2
       /\ \A o \in ReqIds \ {r} : reqs[o].pc = "idle"
       /\ \E a \in adjustments : a.id = reqs[r].id /\ a.status = "pending"
                                 /\ a.from_category_id = 1
       /\ Figures(positions) = Figures(recalculate_season({}, ClockPlans, {}, {}, 0))

----------------------------------------------------------------------------
(* Season workflow through the services: SeasonService, SeasonPlanService, *)
(* OTBService and RangeIntentService move the season with                  *)
(* WorkflowGuard.update_workflow_step.  The rows of season_plans and       *)
(* range_intents are read by no operation of the model; of those uploads   *)
(* the model keeps the workflow step, the audit entry and the response.    *)

\* WorkflowGuard.WORKFLOW_TRANSITIONS
WORKFLOW_TRANSITIONS ==
    [created |-> {"locations_defined"},
     locations_defined |-> {"plan_uploaded"},
     plan_uploaded |-> {"otb_uploaded"},
     otb_uploaded |-> {"range_uploaded"},
     range_uploaded |-> {"locked"},
     locked |-> {}]

\* entity_id of the audit entries that refer to the season as a whole
TheSeason == <<NoCategory, 0>>

\* WorkflowGuard.check_not_locked
check_not_locked ==
    IF season_status = "locked" THEN 403 ELSE 0

\* WorkflowGuard.can_upload_plan
can_upload_plan ==
    IF check_not_locked # 0 THEN check_not_locked
    ELSE IF ~workflow.locations_defined THEN 400
    ELSE 0

\* WorkflowGuard.can_upload_range
can_upload_range ==
    IF check_not_locked # 0 THEN check_not_locked
    ELSE IF ~workflow.otb_uploaded THEN 400
    ELSE 0

\* WorkflowGuard.can_lock_season
can_lock_season ==
    IF ~workflow.range_uploaded THEN 400
    ELSE IF workflow.locked THEN 400
    ELSE 0

\* WorkflowGuard.update_workflow_step: the flag is set and the status written
update_workflow_step(step, new_status) ==
    /\ workflow' = [workflow EXCEPT ![step] = TRUE]
    /\ season_status' = new_status

\* a guarded upload of record_count rows of entity_type
GuardedUpload(op, guard, record_count, entity_type, step, new_status, user_id) ==
    /\ IF record_count = 0
       THEN /\ response' = Response(op, 201, 0)
            /\ UNCHANGED <<season_status, workflow, audit_logs>>
       ELSE IF guard # 0
       THEN /\ response' = Response(op, guard, 0)
            /\ UNCHANGED <<season_status, workflow, audit_logs>>
       ELSE /\ update_workflow_step(step, new_status)
            /\ audit_logs' = audit_logs \cup
                   {AuditEntry(entity_type, TheSeason, "upload", user_id)}
            /\ response' = Response(op, 201, 0)
    /\ UNCHANGED <<purchase_orders, adjustments, positions, now, reqs>>

\* SeasonService.mark_locations_defined
mark_locations_defined(user_id) ==
    /\ IF check_not_locked # 0
       THEN /\ response' = Response("mark_locations_defined", check_not_locked, 0)
            /\ UNCHANGED <<season_status, workflow, audit_logs>>
       ELSE /\ update_workflow_step("locations_defined", "locations_defined")
            /\ audit_logs' = audit_logs \cup
                   {AuditEntry("Season", TheSeason, "workflow_transition", user_id)}
            /\ response' = Response("mark_locations_defined", 200, 0)
    /\ UNCHANGED <<otb_plans, purchase_orders, adjustments, positions, now, reqs>>

\* SeasonService.lock_season
SeasonService_lock_season(user_id) ==
    /\ IF can_lock_season # 0
       THEN /\ response' = Response("SeasonService.lock_season", can_lock_season, 0)
            /\ UNCHANGED <<season_status, workflow, audit_logs>>
       ELSE /\ update_workflow_step("locked", "locked")
            /\ audit_logs' = audit_logs \cup
                   {AuditEntry("Season", TheSeason, "lock", user_id)}
            /\ response' = Response("SeasonService.lock_season", 200, 0)
    /\ UNCHANGED <<otb_plans, purchase_orders, adjustments, positions, now, reqs>>

\* SeasonPlanService.bulk_create_plans
bulk_create_plans(record_count, user_id) ==
    /\ GuardedUpload("bulk_create_plans", can_upload_plan, record_count,
                     "SeasonPlan", "plan_uploaded", "plan_uploaded", user_id)
    /\ UNCHANGED otb_plans

\* RangeIntentService.bulk_create_range_intents
bulk_create_range_intents(record_count, user_id) ==
    /\ GuardedUpload("bulk_create_range_intents", can_upload_range, record_count,
                     "RangeIntent", "range_uploaded", "range_uploaded", user_id)
    /\ UNCHANGED otb_plans

\* one OTBPlanCreate of a bulk upload; validate_month has normalised month
PlanData(location_id, category_id, month, planned_sales, planned_closing_stock, opening_stock, on_order) ==
    [location_id |-> location_id,
     category_id |-> category_id,
     month |-> FirstOfMonth(month),
     planned_sales |-> planned_sales,
     planned_closing_stock |-> planned_closing_stock,
     opening_stock |-> opening_stock,
     on_order |-> on_order]

\* the row a plan_data is stored as, by repo.create or by the update of the
\* existing row: the four components and the limit computed from them
StoredPlan(plan_data) ==
    [location_id |-> plan_data.location_id,
     category_id |-> plan_data.category_id,
     month |-> FirstOfMonth(plan_data.month),
     planned_sales |-> plan_data.planned_sales,
     planned_closing_stock |-> plan_data.planned_closing_stock,
     opening_stock |-> plan_data.opening_stock,
     on_order |-> plan_data.on_order,
     approved_spend_limit |->
         calculate_otb(plan_data.planned_sales, plan_data.planned_closing_stock,
                       plan_data.opening_stock, plan_data.on_order)]

\* the loop of bulk_create_otb_plans over plans[i..]: the existing row of a
\* composite key is overwritten, a new key gets a new row
RECURSIVE BulkUpsert(_, _, _)
BulkUpsert(table, plans, i) ==
    IF i > Len(plans) THEN table
    ELSE LET plan_data == plans[i]
             existing == {r \in table : /\ r.location_id = plan_data.location_id
                                        /\ r.category_id = plan_data.category_id
                                        /\ r.month = plan_data.month}
         IN  BulkUpsert((table \ existing) \cup {StoredPlan(plan_data)}, plans, i + 1)

\* OTBService.bulk_create_otb_plans
bulk_create_otb_plans(plans, user_id) ==
    /\ GuardedUpload("bulk_create_otb_plans", can_upload_otb, Len(plans),
                     "OTBPlan", "otb_uploaded", "otb_uploaded", user_id)
    /\ otb_plans' = IF Len(plans) > 0 /\ can_upload_otb = 0
                    THEN BulkUpsert(otb_plans, plans, 1)
                    ELSE otb_plans

\* the fields an OTBPlanUpdate may carry
UpdateFields == {"planned_sales", "planned_closing_stock", "opening_stock", "on_order"}

\* BaseRepository.update: setattr for every key of the dump that has a value
Updated(plan, update_data) ==
    [location_id |-> plan.location_id,
     category_id |-> plan.category_id,
     month |-> plan.month,
     planned_sales |-> IF "planned_sales" \in DOMAIN update_data
                       THEN update_data["planned_sales"] ELSE plan.planned_sales,
     planned_closing_stock |-> IF "planned_closing_stock" \in DOMAIN update_data
                               THEN update_data["planned_closing_stock"]
                               ELSE plan.planned_closing_stock,
     opening_stock |-> IF "opening_stock" \in DOMAIN update_data
                       THEN update_data["opening_stock"] ELSE plan.opening_stock,
     on_order |-> IF "on_order" \in DOMAIN update_data
                  THEN update_data["on_order"] ELSE plan.on_order,
     approved_spend_limit |-> plan.approved_spend_limit]

\* OTBService.update_otb_plan; data is model_dump(exclude_unset=True)
update_otb_plan(plan, data, user_id) ==
    /\ plan \in otb_plans
    /\ IF check_otb_is_mutable # 0
       THEN /\ response' = Response("update_otb_plan", check_otb_is_mutable, 0)
            /\ UNCHANGED <<otb_plans, audit_logs>>
       ELSE /\ otb_plans' = (otb_plans \ {plan}) \cup {Updated(plan, data)}
            /\ audit_logs' = audit_logs \cup
                   {AuditEntry("OTBPlan", <<plan.category_id, plan.month.m>>,
                               "update", user_id)}
            /\ response' = Response("update_otb_plan", 200, 0)
    /\ UNCHANGED <<season_status, workflow, purchase_orders, adjustments,
                   positions, now, reqs>>

----------------------------------------------------------------------------
(* SpecFlow: a season from its creation on, moved by the orchestrator's    *)
(* steps and by the services' uploads in any order                         *)

\* the bulk uploads of OTB plans tried: none, one row, the same key twice
BulkUploads ==
    {<<>>,
     <<PlanData(1, 1, Date(1, 2), 1, 0, 0, 0)>>,
     <<PlanData(1, 1, Date(1, 1), 1, 0, 0, 0), PlanData(1, 1, Date(1, 2), 0, 0, 1, 0)>>,
     <<PlanData(1, 2, Date(1, 1), 1, 0, 0, 0)>>}

FlowNext ==
    \/ WorkflowNext
    \/ \E u \in Actors : mark_locations_defined(u)
    \/ \E n \in {0, 1}, u \in Actors : bulk_create_plans(n, u)
    \/ \E plans \in BulkUploads, u \in Actors : bulk_create_otb_plans(plans, u)
    \/ \E n \in {0, 1}, u \in Actors : bulk_create_range_intents(n, u)
    \/ \E u \in Actors : SeasonService_lock_season(u)

SpecFlow == Init /\ [][FlowNext]_vars

----------------------------------------------------------------------------
(* C26: every change of the season's status made by a service operation    *)
(* (the orchestrator's completion steps, the bulk uploads of season plans, *)
(* OTB plans and range intents, mark_locations_defined, lock_season)       *)
(* follows an edge of WORKFLOW_TRANSITIONS: the status never moves         *)
(* backwards or skips a step, and locked has no outgoing transition.       *)

C26_FollowsTransitions ==
    [][season_status' # season_status
       => season_status' \in WORKFLOW_TRANSITIONS[season_status]]_vars

----------------------------------------------------------------------------
(* C27: the workflow flags are set in order: plan_uploaded only once       *)
(* locations_defined is set, otb_uploaded only once plan_uploaded is,      *)
(* range_uploaded only once otb_uploaded is, locked only once              *)
(* range_uploaded is; and a flag that is true is never reset to false.     *)

FlagsInOrder(w) ==
    /\ w.plan_uploaded => w.locations_defined
    /\ w.otb_uploaded => w.plan_uploaded
    /\ w.range_uploaded => w.otb_uploaded
    /\ w.locked => w.range_uploaded

C27_GatesOrdered ==
    [][/\ FlagsInOrder(workflow')
       /\ \A step \in DOMAIN workflow : workflow[step] => workflow'[step]]_vars

\* the season has been locked by SeasonService.lock_season, its OTB plan and
\* its range intents having come in by bulk uploads
C27_Witness ==
    /\ workflow.locked /\ season_status = "locked"
    /\ response = Response("SeasonService.lock_season", 200, 0)
    /\ AuditEntry("RangeIntent", TheSeason, "upload", 1) \in audit_logs
    /\ otb_plans = {StoredPlan(PlanData(1, 2, Date(1, 1), 1, 0, 0, 0))}

----------------------------------------------------------------------------
(* SpecPlan: the OTB plan rows of a season whose sales plan is in, written *)
(* by single creations, bulk uploads and updates                           *)

PlanUploaded ==
    [locations_defined |-> TRUE, plan_uploaded |-> TRUE, otb_uploaded |-> FALSE,
     range_uploaded |-> FALSE, locked |-> FALSE]

InitPlan ==
    /\ season_status = "plan_uploaded"
    /\ workflow = PlanUploaded
    /\ otb_plans = {}
    /\ purchase_orders = {}
    /\ adjustments = {}
    /\ positions = {}
    /\ now = 0
    /\ response = NoResponse
    /\ reqs = [r \in ReqIds |-> IdleReq]
    /\ audit_logs = {}

\* the bodies of PUT /otb/{plan_id} tried: any of the four fields, set to 2
PlanUpdates ==
    UNION {[S -> {2}] : S \in SUBSET UpdateFields}

PlanOpsNext ==
    \/ \E c \in Categories, d \in Days, i \in {<<1, 0>>, <<0, 1>>} :
          create_otb_plan(1, c, FirstOfMonth(Date(1, d)), i[1], 0, i[2], 0)
    \/ \E plans \in BulkUploads, u \in Actors : bulk_create_otb_plans(plans, u)
    \/ \E plan \in otb_plans, data \in PlanUpdates, u \in Actors :
          update_otb_plan(plan, data, u)

SpecPlan == InitPlan /\ [][PlanOpsNext]_vars

----------------------------------------------------------------------------
(* C28: after any sequence of create_otb_plan, bulk_create_otb_plans and   *)
(* update_otb_plan operations, the approved_spend_limit of every OTB plan  *)
(* row equals planned_sales + planned_closing_stock - opening_stock -      *)
(* on_order of that same row.                                              *)

C28_FormulaHolds ==
    \A r \in otb_plans :
       r.approved_spend_limit =
          r.planned_sales + r.planned_closing_stock - r.opening_stock - r.on_order

----------------------------------------------------------------------------
(* SpecBudget: transfers out of category 1 requested and approved on a     *)
(* season whose plan rows and purchase orders stay as they are             *)

BudgetNext ==
    \/ recalculate_otb
    \/ /\ Cardinality(adjustments) < Cardinality(AdjIds)
       /\ \E a \in 1..MaxAmount, u \in Actors : create_adjustment(1, 2, a, u)
    \/ \E id \in AdjIds, u \in Actors : approve_adjustment(id, u)

SpecBudget == InitAudit /\ [][BudgetNext]_vars

----------------------------------------------------------------------------
(* C29: with plan and purchase-order data unchanged, over any sequence of  *)
(* create_adjustment and approve_adjustment calls, the total amount of the *)
(* approved adjustments out of a category never exceeds the total          *)
(* available OTB the category had before the first of them was approved:   *)
(* pending adjustments that each passed the guard cannot together overdraw *)
(* the category.                                                           *)

\* the available OTB of a category while no adjustment is approved: the
\* positions recalculate_season gives from the plan rows and orders alone
AvailableBeforeApprovals(category_id) ==
    SumAvailable(get_by_season_and_category(
        recalculate_season({}, otb_plans, purchase_orders, {}, 0), category_id))

C29_NoOverdraw ==
    \A c \in Categories :
       SumAmount(ApprovedOutOf(c)) <= AvailableBeforeApprovals(c)

----------------------------------------------------------------------------
(* SpecAlert: the alerts read from a position store whose rows hold, month *)
(* by month, the figures recalculate_season computes from a planned and a  *)
(* consumed amount                                                         *)

\* the month buckets that hold a row: two of category 1, one of category 2
AlertKeys == {<<1, Date(1, 1)>>, <<1, Date(2, 1)>>, <<2, Date(1, 1)>>}

\* <<planned, consumed>> of a bucket
AlertInputs == {0, 1, 10} \X {0, 1, 20}

AlertPositions ==
    {UpsertAll({}, AlertKeys,
               [k \in AlertKeys |->
                   BucketFigures(k, f[k][1], [x \in {k} |-> f[k][2]], [x \in {} |-> 0])]) :
        f \in [AlertKeys -> AlertInputs]}

InitAlert ==
    /\ season_status = "range_uploaded"
    /\ workflow = RangeUploaded
    /\ otb_plans = {}
    /\ purchase_orders = {}
    /\ adjustments = {}
    /\ positions \in AlertPositions
    /\ now = 0
    /\ response = NoResponse
    /\ reqs = [r \in ReqIds |-> IdleReq]
    /\ audit_logs = {}

SpecAlert == InitAlert /\ [][DashNext]_vars

----------------------------------------------------------------------------
(* C30: whenever get_alerts raises otb_exceeded for a category (its total  *)
(* consumed is above its total planned over its months), it also raises    *)
(* low_otb for that category: the summed available_otb is below 20% of the *)
(* summed planned_otb, however plan and consumption are spread over the    *)
(* category's month buckets.                                               *)

====
